---- MODULE Spec2Model ----
(***************************************************************************)
(* A model of the seat / input router and of the scene tree's focus        *)
(* tracking of the jay compositor:                                         *)
(*   src/src/ifs/wl_seat/event_handling.rs   (NodeSeatState, WlSeatGlobal)  *)
(*   src/src/config.rs                       (ConfigProxy)                  *)
(*   src/src/tree/output.rs                  (OutputNode)                   *)
(*   src/src/ifs/jay_compositor.rs           (JayCompositor)                *)
(* Every action is one handler of the single-threaded event loop, run to   *)
(* completion.  The protocol events a handler sends are kept in `sent`,    *)
(* the shortcut invocations in `invoked`, and `last` names the handler.    *)
(***************************************************************************)
EXTENDS Integers, Sequences, FiniteSets, TLC

\* ------------------------------------------------------------------ universe

Seats == {"seat1", "seat2"}
Clients == {"c1", "c2"}

\* The most keyboard objects one client binds on one seat.
MaxKb == 2

\* The scene tree: the root, two outputs side by side with one workspace each,
\* a tiled toplevel with its surface on each workspace, a float and a popup
\* (stacked nodes), two layer surfaces and a lock surface.  T3 is a second
\* window of the client of T1 on the same workspace, which the container of the
\* workspace does not show.  Below the popup, at its one point of output B,
\* lie a layer surface of each layer (LO, LT, LM, LG) and the float F2; LM
\* reaches up from there below the bar and below L.  Output A has two more
\* workspaces that it does not show when the run begins: WC with the window
\* T4, and WE, which is empty.
Root == "root"
Outputs == {"A", "B"}
Workspaces == {"WA", "WB", "WC", "WE"}
Toplevels == {"T1", "T2", "T3", "T4"}
Surfaces == {"S1", "S2", "S3", "S4"}

\* The toplevels the containers of the workspaces show.
ShownToplevels == {"T1", "T2"}
Floats == {"F", "F2"}
Popups == {"P"}
LayerSurfaces == {"L", "LB", "LO", "LT", "LM", "LG"}
LockSurfaces == {"LS"}
Nodes == {Root} \cup Outputs \cup Workspaces \cup Toplevels \cup Surfaces
             \cup Floats \cup Popups \cup LayerSurfaces \cup LockSurfaces

\* ToplevelNode::focus_surface: the surface of a toplevel that takes the focus.
FocusSurface(tl) ==
    CASE tl = "T1" -> "S1" [] tl = "T2" -> "S2" [] tl = "T3" -> "S3" [] OTHER -> "S4"

\* WlSurface::client
SurfaceClient(n) == IF n = "S2" THEN "c2" ELSE "c1"

IsSurface(n) == n \in Surfaces

\* Node::node_client_id: Some(client) for a surface, None for other nodes.
NodeClientId(n) == IF IsSurface(n) THEN SurfaceClient(n) ELSE "none"

\* The parent of a node in the scene tree.  A float hangs below the workspace
\* whose stacked list holds it, a layer surface and a lock surface below their
\* output, a popup below the surface it belongs to.
Parent(n) ==
    CASE n \in Outputs -> Root
      [] n = "WA" -> "A"
      [] n = "WB" -> "B"
      [] n \in {"WC", "WE"} -> "A"
      [] n = "T4" -> "WC"
      [] n = "S4" -> "T4"
      [] n = "T1" -> "WA"
      [] n = "T2" -> "WB"
      [] n = "S1" -> "T1"
      [] n = "S2" -> "T2"
      [] n = "T3" -> "WA"
      [] n = "S3" -> "T3"
      [] n = "F" -> "WA"
      [] n = "F2" -> "WB"
      [] n \in {"L", "LO", "LT", "LM", "LG"} -> "B"
      [] n = "LB" -> "A"
      [] n = "P" -> "L"
      [] n = "LS" -> "A"
      [] OTHER -> "none"

RECURSIVE IsAncestor(_, _)
IsAncestor(a, n) ==
    IF n = Root \/ n = "none" THEN FALSE ELSE Parent(n) = a \/ IsAncestor(a, Parent(n))

\* ------------------------------------------------------------------ geometry

\* Rect: x1 and y1 are inside, x2 and y2 are outside.
Rect(x1, y1, x2, y2) == [x1 |-> x1, y1 |-> y1, x2 |-> x2, y2 |-> y2]
RectContains(r, x, y) == r.x1 <= x /\ x < r.x2 /\ r.y1 <= y /\ y < r.y2
RectTranslate(r, x, y) == <<x - r.x1, y - r.y1>>
RectTranslateInv(r, x, y) == <<x + r.x1, y + r.y1>>

\* Fixed: a signed 24.8 fixed-point number, kept as its raw integer.
FixedOne == 256
FixedFromInt(i) == i * FixedOne
\* Fixed::round_down: the arithmetic shift by the 8 fraction bits.
RoundDown(f) == f \div FixedOne
\* Fixed::apply_fract: the integer part replaced, the fraction bits kept.
ApplyFract(f, i) == i * FixedOne + (f % FixedOne)

\* OutputNode::global.pos: the rectangle of an output in the global space.
GlobalPos(o) == IF o = "A" THEN Rect(0, 0, 4, 4) ELSE Rect(4, 0, 8, 4)

\* The order in which the map of the outputs is walked.
OutputOrder == <<"A", "B">>

\* WorkspaceNode::container: the tiled tree of a workspace, here one toplevel,
\* or none.
WorkspaceContainer(ws) ==
    CASE ws = "WA" -> "T1" [] ws = "WB" -> "T2" [] ws = "WC" -> "T4" [] OTHER -> "none"

\* OutputNode::non_exclusive_rect_rel: output B gives its first row to the
\* exclusive zone of the layer surface L.
NonExclusiveRectRel(o) == IF o = "A" THEN Rect(0, 0, 4, 4) ELSE Rect(0, 1, 4, 4)

\* state.theme.sizes.title_height
TitleHeight == 0

\* OutputNode::lock_surface
LockSurface(o) == IF o = "A" THEN "LS" ELSE "none"

\* state.root.stacked_above_layers and state.root.stacked: the stacked nodes of
\* the whole display, of every output and workspace, bottom to top.
StackedAboveLayers == <<"P">>
Stacked == <<"F", "F2">>

\* OutputNode::layers
OVERLAY == "overlay"
TOP == "top"
BOTTOM == "bottom"
BACKGROUND == "background"
Layers(o, layer) ==
    IF o = "A" THEN (IF layer = BACKGROUND THEN <<"LB">> ELSE <<>>)
    ELSE CASE layer = OVERLAY -> <<"LO">>
           [] layer = TOP -> <<"L", "LT">>
           [] layer = BOTTOM -> <<"LM">>
           [] OTHER -> <<"LG">>

\* ZwlrLayerSurfaceV1::output_extents, relative to the output.
LayerOutputExtents(l) ==
    CASE l = "L" -> Rect(2, 0, 4, 1)
      [] l = "LB" -> Rect(0, 0, 4, 4)
      [] l = "LM" -> Rect(2, 0, 3, 3)
      [] OTHER -> Rect(2, 2, 3, 3)

\* Node::node_absolute_position of the stacked nodes.  The float belongs to the
\* workspace of output A and lies across the border of A and B.
NodeAbsolutePosition(n) == IF n = "F" THEN Rect(3, 1, 5, 3) ELSE Rect(6, 2, 7, 3)

\* StackedNode::stacked_absolute_position_constrains_input
ConstrainsInput(n) == n \in Floats

\* The buffer of a toplevel's surface, in the coordinates of its toplevel.
SurfaceExtents(sf) == Rect(0, 0, 4, 2)

\* ------------------------------------------------------------------ keyboard state (xkbcommon)

Keys == {"kSuper", "kT"}
PRESSED == "pressed"
RELEASED == "released"
KeyStates == {PRESSED, RELEASED}

\* KbState::unmodified_keysyms: the keysyms of a key under no modifiers; a key
\* of the keymap may carry more than one keysym.
UnmodifiedKeysyms(key) ==
    IF key = "kSuper" THEN <<"Super_L">> ELSE <<"t", "t_alt">>

\* The modifier a key drives while it is held.
KeyModifier(key) == IF key = "kSuper" THEN {"Super"} ELSE {}

InitKbState == [depressed |-> {}, latched |-> {}, locked |-> {}, group |-> 0]

\* KbState::mods: the ModifierState tuple of a keyboard state.
ModsOf(st) ==
    [mods_depressed |-> st.depressed, mods_latched |-> st.latched,
     mods_locked |-> st.locked, group |-> st.group,
     mods_effective |-> st.depressed \cup st.latched \cup st.locked]

\* KbState::update(key, direction): the state after the key went down or up.
KbUpdate(st, key, kstate) ==
    IF kstate = PRESSED
    THEN [st EXCEPT !.depressed = @ \cup KeyModifier(key)]
    ELSE [st EXCEPT !.depressed = @ \ KeyModifier(key)]

\* The (mods, keysym) pairs add_shortcut / remove_shortcut are called with.
ShortcutArgs == {<<{"Super"}, "t">>, <<{"Super"}, "t_alt">>, <<{}, "Super_L">>}

\* ------------------------------------------------------------------ state

VARIABLES
    pressed_keys,   \* seat -> set of keys             (WlSeatGlobal::pressed_keys)
    kb_state,       \* seat -> keyboard state          (WlSeatGlobal::kb_state)
    shortcuts,      \* seat -> [(mods, sym) -> mods]   (WlSeatGlobal::shortcuts)
    config,         \* State::config is Some(ConfigProxy)
    config_handler, \* the ConfigProxyHandler: "none", "live", or "dropped" (its flag is set)
    keyboards,      \* client -> number of wl_keyboard objects bound on a seat
    keyboard_node,  \* seat -> node                    (WlSeatGlobal::keyboard_node)
    kb_owner,       \* seat -> "default" | "grab"      (WlSeatGlobal::kb_owner)
    history,        \* seat -> sequence of toplevels   (toplevel_focus_history)
    kb_foci,        \* node -> sequence of seats       (NodeSeatState::kb_foci)
    pointer_foci,   \* node -> sequence of seats       (NodeSeatState::pointer_foci)
    grabs,          \* node -> sequence of seats       (NodeSeatState::grabs)
    dnd_targets,    \* node -> sequence of seats       (NodeSeatState::dnd_targets)
    pos,            \* seat -> <<x, y>> in raw Fixed   (WlSeatGlobal::pos)
    output,         \* seat -> output                  (WlSeatGlobal::output)
    pointer_stack,  \* seat -> sequence of nodes       (WlSeatGlobal::pointer_stack)
    pointer_owner,  \* seat -> [kind, node]            (WlSeatGlobal::pointer_owner)
    tree_changed,   \* State::tree_changed has been triggered and not yet run
    locked,         \* state.lock.locked
    fullscreen,     \* workspace -> toplevel or "none" (WorkspaceNode::fullscreen)
    hidden,         \* the nodes that are not visible
    destroyed,      \* the nodes destroy_node has been called for
    hung,           \* a handler is spinning in a loop that never ends
    sent,           \* the protocol events of the last handler, in order
    invoked,        \* the invoke_shortcut calls of the last handler, in order
    steps,          \* the calls into nodes and owners of the last handler, in order
    last,           \* the last handler and what it was called with
    announced,      \* keyboard object -> the modifiers last announced to it
    entered,        \* keyboard object -> the surface it has entered and not left
    consumed,       \* seat -> held keys whose press a shortcut consumed
    held,           \* seat -> keys whose last accepted event was a press
    symmetric_delete, \* client -> Client::symmetric_delete
    objects,        \* client -> [object id -> interface] (Client::objects)
    killed,         \* client -> a fatal protocol error has ended the client
    ring_stopped,   \* state.ring.stop() has been called
    log_level,      \* the level of state.logger
    events,         \* the other protocol events of the last handler, in order
    opted_in,       \* the clients that have sent enable_symmetric_delete
    pointers,       \* client -> the wl_seat versions of its wl_pointer objects
    screencopies,   \* output -> the pending captures (OutputNode::screencopies)
    selection,      \* seat -> the source of the selection or "none"
    primary_selection, \* seat -> the source of the primary selection or "none"
    pending_output_render_data,  \* the queue of outputs  (State::pending_output_render_data)
    update_render_data_scheduled, \* output -> flag (OutputNode::update_render_data_scheduled)
    global_destroyed, \* the outputs whose global is destroyed (WlOutputGlobal::destroyed)
    schedule_calls, \* output -> schedule_update_render_data calls since its last update
    signal_fd,      \* the signals that wait in the signal fd, in order  (Sighand::fd)
    el_stopped,     \* the event loop has been told to stop  (EventLoopRef::stop)
    data_devices,   \* client -> the versions of its wl_data_device objects
    workspace,      \* output -> its active workspace  (OutputNode::workspace)
    title_visible   \* output -> flag                  (OutputNode::title_visible)

kbVars == <<pressed_keys, kb_state, shortcuts, config, config_handler, keyboards>>
focusVars == <<keyboard_node, kb_owner, history, kb_foci, destroyed, hung>>
pointerVars == <<pointer_foci, grabs, dnd_targets, pointer_stack, pointer_owner, tree_changed>>
posVars == <<pos, output>>
outputVars == <<workspace, title_visible>>
sceneVars == <<locked, fullscreen, hidden, outputVars>>
logVars == <<sent, invoked, steps, last, announced, entered, consumed, held>>
renderVars == <<pending_output_render_data, update_render_data_scheduled, global_destroyed,
                schedule_calls>>
sighandVars == <<signal_fd, el_stopped>>
taskVars == <<renderVars, sighandVars, data_devices>>
clientVars == <<symmetric_delete, objects, killed, ring_stopped, log_level, events, opted_in,
                pointers, taskVars, screencopies, selection, primary_selection>>
vars == <<kbVars, focusVars, pointerVars, posVars, sceneVars, logVars, clientVars>>

\* OutputNode::workspace: the active workspace of an output.
OutputWorkspace(o) == workspace[o]

\* A node and everything below it in the scene tree.
Subtrees == [n \in Nodes |-> {m \in Nodes : m = n \/ IsAncestor(n, m)}]
Subtree(n) == Subtrees[n]

\* The workspaces no output shows, with everything on them.
Inactive(active) ==
    UNION {Subtree(ws) : ws \in Workspaces \ {active[o] : o \in Outputs}}

\* The wl_keyboard objects the clients have bound when the run begins: none,
\* one or several per client.
KeyboardConfigs ==
    {[c \in Clients |-> IF c = "c1" THEN MaxKb ELSE 1],
     [c \in Clients |-> IF c = "c1" THEN 1 ELSE 0]}

\* A keyboard object: the k-th wl_keyboard of a client on a seat.
KbObjects == Seats \X Clients \X (1..MaxKb)

NoMods == [mods_depressed |-> {}, mods_latched |-> {}, mods_locked |-> {},
           group |-> 0, mods_effective |-> {}]

\* One protocol event to one wl_keyboard object.  serial counts the serials
\* the receiving client has handed out since the handler began (0: none).
KbEvent(ev, s, c, k, serial, surface, key, kstate, keys, mods) ==
    [ev |-> ev, seat |-> s, client |-> c, kb |-> k, serial |-> serial,
     surface |-> surface, key |-> key, kstate |-> kstate, keys |-> keys,
     mods |-> mods]

\* The part of the state a handler works on, threaded through its calls.
World ==
    [keyboard_node |-> keyboard_node, kb_owner |-> kb_owner, history |-> history,
     kb_foci |-> kb_foci, pointer_foci |-> pointer_foci, grabs |-> grabs,
     dnd_targets |-> dnd_targets, pointer_stack |-> pointer_stack,
     pointer_owner |-> pointer_owner, tree_changed |-> tree_changed, hung |-> FALSE,
     sent |-> <<>>, serial |-> [c \in Clients |-> 0], invoked |-> <<>>,
     steps |-> <<>>, offered |-> <<>>, moves |-> <<>>]

\* ------------------------------------------------------------------ helpers

Last(q) == q[Len(q)]
Front(q) == SubSeq(q, 1, Len(q) - 1)
SeqRemove(q, x) == SelectSeq(q, LAMBDA y : y # x)
SeqHas(q, x) == \E i \in 1..Len(q) : q[i] = x

\* SmallMap::insert with the seat id as key: a present key keeps its place.
SmallMapInsert(q, x) == IF SeqHas(q, x) THEN q ELSE Append(q, x)

\* Client::next_serial
NextSerial(w, c) == [w EXCEPT !.serial[c] = @ + 1]

\* surface_kb_event that stops after the first wl_keyboard of the client.
SurfaceKbEvent_FirstOnly(w, s, surface, ev, serial, key, kstate, keys, mods) ==
    LET c == SurfaceClient(surface)
        evs == [k \in 1..(IF keyboards[c] > 0 THEN 1 ELSE 0) |->
                   KbEvent(ev, s, c, k, serial, surface, key, kstate, keys, mods)]
    IN [w EXCEPT !.sent = @ \o evs]

\* surface_kb_event over for_each_kb with version 0: one event to every
\* wl_keyboard of the surface's client, in the order of the bindings.
SurfaceKbEvent(w, s, surface, ev, serial, key, kstate, keys, mods) ==
    LET c == SurfaceClient(surface)
        evs == [k \in 1..keyboards[c] |->
                   KbEvent(ev, s, c, k, serial, surface, key, kstate, keys, mods)]
    IN [w EXCEPT !.sent = @ \o evs]

\* WlSeatGlobal::key_surface
KeySurface(w, s, surface, key, kstate) ==
    LET c == SurfaceClient(surface)
        w1 == NextSerial(w, c)
    IN SurfaceKbEvent(w1, s, surface, "key", w1.serial[c], key, kstate, {}, NoMods)

\* WlSeatGlobal::mods_surface
ModsSurface(w, s, surface, mods) ==
    LET c == SurfaceClient(surface)
        w1 == NextSerial(w, c)
    IN SurfaceKbEvent(w1, s, surface, "modifiers", w1.serial[c], "none", "none", {}, mods)

\* WlSeatGlobal::unfocus_surface
UnfocusSurface(w, s, surface) ==
    LET c == SurfaceClient(surface)
        w1 == NextSerial(w, c)
    IN SurfaceKbEvent(w1, s, surface, "leave", w1.serial[c], "none", "none", {}, NoMods)

\* WlSeatGlobal::offer_selection, for the selection and the primary selection:
\* the source of the seat is offered to the client, or a null selection is
\* sent to its devices when the seat has none.
OfferSelection(w, s, c, kind) ==
    LET field == IF kind = "selection" THEN selection[s] ELSE primary_selection[s]
    IN [w EXCEPT !.offered = Append(@, [seat |-> s, client |-> c, kind |-> kind,
                                        source |-> field])]

\* focus_surface that sends the modifiers with the serial of the enter.
FocusSurfaceEvents_SameSerial(w, s, surface) ==
    LET c == SurfaceClient(surface)
        w1 == NextSerial(w, c)
        w2 == SurfaceKbEvent(w1, s, surface, "enter", w1.serial[c], "none", "none",
                             pressed_keys[s], NoMods)
        w4 == SurfaceKbEvent(w2, s, surface, "modifiers", w2.serial[c], "none", "none",
                             {}, ModsOf(kb_state[s]))
    IN IF NodeClientId(w4.keyboard_node[s]) # c
       THEN OfferSelection(OfferSelection(w4, s, c, "selection"), s, c, "primary")
       ELSE w4

\* focus_surface that offers the selections on every focus change.
FocusSurfaceEvents_AlwaysOffer(w, s, surface) ==
    LET c == SurfaceClient(surface)
        w1 == NextSerial(w, c)
        w2 == SurfaceKbEvent(w1, s, surface, "enter", w1.serial[c], "none", "none",
                             pressed_keys[s], NoMods)
        w3 == NextSerial(w2, c)
        w4 == SurfaceKbEvent(w3, s, surface, "modifiers", w3.serial[c], "none", "none",
                             {}, ModsOf(kb_state[s]))
    IN OfferSelection(OfferSelection(w4, s, c, "selection"), s, c, "primary")

\* WlSeatGlobal::focus_surface
FocusSurfaceEvents(w, s, surface) ==
    LET c == SurfaceClient(surface)
        w1 == NextSerial(w, c)
        w2 == SurfaceKbEvent(w1, s, surface, "enter", w1.serial[c], "none", "none",
                             pressed_keys[s], NoMods)
        w3 == NextSerial(w2, c)
        w4 == SurfaceKbEvent(w3, s, surface, "modifiers", w3.serial[c], "none", "none",
                             {}, ModsOf(kb_state[s]))
    IN IF NodeClientId(w4.keyboard_node[s]) # c
       THEN OfferSelection(OfferSelection(w4, s, c, "selection"), s, c, "primary")
       ELSE w4

\* Node::node_key, node_mods, node_unfocus, node_focus: a surface hands the
\* call to the seat's callback for surfaces, every other node ignores it.
NodeKey(w, s, n, key, kstate) == IF IsSurface(n) THEN KeySurface(w, s, n, key, kstate) ELSE w
NodeMods(w, s, n, mods) == IF IsSurface(n) THEN ModsSurface(w, s, n, mods) ELSE w
NodeUnfocus(w, s, n) == IF IsSurface(n) THEN UnfocusSurface(w, s, n) ELSE w
NodeFocus(w, s, n) == IF IsSurface(n) THEN FocusSurfaceEvents(w, s, n) ELSE w

\* NodeSeatState::focus and NodeSeatState::unfocus
SeatStateFocus(w, s, n) == [w EXCEPT !.kb_foci[n] = SmallMapInsert(@, s)]
SeatStateUnfocus(w, s, n) == [w EXCEPT !.kb_foci[n] = SeqRemove(@, s)]

\* KbOwner::set_kb_node: the grab owner ignores it; the default owner leaves
\* the old node, enters the new one and only then stores it.
SetKbNode(w, s, node) ==
    LET old == w.keyboard_node[s]
        w0 == [w EXCEPT !.moves = Append(@, [seat |-> s, from |-> old, to |-> node])]
        w1 == NodeUnfocus(w0, s, old)
        w2 == SeatStateUnfocus(w1, s, old)
        w3 == SeatStateFocus(w2, s, node)
        w4 == NodeFocus(w3, s, node)
    IN IF w.kb_owner[s] = "grab" \/ old = node
       THEN w
       ELSE [w4 EXCEPT !.keyboard_node[s] = node]

\* WlSeatGlobal::focus_node
FocusNode(w, s, node) == SetKbNode(w, s, node)

\* WlSeatGlobal::ungrab_kb
UngrabKb(w, s) == [w EXCEPT !.kb_owner[s] = "default"]

\* WlSeatGlobal::grab
Grab(w, s, node) ==
    IF w.kb_owner[s] = "grab"
    THEN w
    ELSE [SetKbNode(w, s, node) EXCEPT !.kb_owner[s] = "grab"]

\* WlSeatGlobal::focus_toplevel
FocusToplevel(w, s, tl) ==
    LET w1 == [w EXCEPT !.history[s] = Append(SeqRemove(@, tl), tl)]
    IN FocusNode(w1, s, FocusSurface(tl))

\* ------------------------------------------------------------------ hit test

AcceptsInput == "AcceptsInput"
Other == "Other"
Usecases == {"None", "SelectToplevel", "SelectWorkspace"}

\* FoundNode and the result of one search step: the FindTreeResult and the
\* traversal vector the step leaves behind.
FoundNode(n, x, y) == [node |-> n, x |-> x, y |-> y]
Found(res, tree) == [res |-> res, tree |-> tree]

\* A truncate that leaves the vector as it is.
Truncate_Nothing(tree, len) == tree

\* Vec::truncate
Truncate(tree, len) == IF Len(tree) <= len THEN tree ELSE SubSeq(tree, 1, len)

\* Node::node_visible
NodeVisible(n) == n \notin hidden /\ n \notin destroyed

\* WlSurface::node_find_tree_at: a surface takes the input inside its buffer.
SurfaceFindTreeAt(sf, x, y, tree, usecase) ==
    Found(IF RectContains(SurfaceExtents(sf), x, y) THEN AcceptsInput ELSE Other, tree)

\* ToplevelNode::node_find_tree_at: the toplevel itself when a toplevel is to
\* be selected, else its surface; a miss leaves the surface in the vector.
ToplevelFindTreeAt(tl, x, y, tree, usecase) ==
    LET sf == FocusSurface(tl)
        t1 == Append(tree, FoundNode(sf, x, y))
    IN IF usecase = "SelectToplevel" THEN Found(AcceptsInput, tree)
       ELSE IF NodeVisible(sf) THEN SurfaceFindTreeAt(sf, x, y, t1, usecase)
       ELSE Found(Other, t1)

\* WorkspaceNode::node_find_tree_at: the tiled tree of the workspace; a miss
\* leaves the toplevel in the vector.
WorkspaceFindTreeAt(ws, x, y, tree, usecase) ==
    LET tl == WorkspaceContainer(ws)
    IN IF NodeVisible(tl)
       THEN ToplevelFindTreeAt(tl, x, y, Append(tree, FoundNode(tl, x, y)), usecase)
       ELSE Found(Other, tree)

\* StackedNode::node_find_tree_at: a float takes the input on its frame, a
\* popup inside its own extents.
StackedFindTreeAt(st, x, y, tree, usecase) ==
    LET ext == NodeAbsolutePosition(st)
    IN IF st \in Floats THEN Found(AcceptsInput, tree)
       ELSE Found(IF 0 <= x /\ x < ext.x2 - ext.x1 /\ 0 <= y /\ y < ext.y2 - ext.y1
                  THEN AcceptsInput ELSE Other, tree)

\* ZwlrLayerSurfaceV1::node_find_tree_at: the surface of the layer surface.
LayerSurfaceFindTreeAt(l, x, y, tree, usecase) ==
    Found(IF NodeVisible(l) THEN AcceptsInput ELSE Other, Append(tree, FoundNode(l, x, y)))

\* ExtSessionLockSurfaceV1::node_find_tree_at
LockSurfaceFindTreeAt(ls, x, y, tree, usecase) == Found(AcceptsInput, tree)

\* OutputNode::find_stacked_at, the loop from the top of the stack down.
RECURSIVE FindStackedAtLoop(_, _, _, _, _, _)
FindStackedAtLoop(stack, i, x_abs, y_abs, tree, usecase) ==
    IF i = 0 THEN Found(Other, tree)
    ELSE LET stacked == stack[i]
             ext == NodeAbsolutePosition(stacked)
             loc == RectTranslate(ext, x_abs, y_abs)
             idx == Len(tree)
             r == StackedFindTreeAt(stacked, loc[1], loc[2],
                                    Append(tree, FoundNode(stacked, loc[1], loc[2])), usecase)
         IN IF ~NodeVisible(stacked)
            THEN FindStackedAtLoop(stack, i - 1, x_abs, y_abs, tree, usecase)
            ELSE IF ConstrainsInput(stacked) /\ ~RectContains(ext, x_abs, y_abs)
            THEN FindStackedAtLoop(stack, i - 1, x_abs, y_abs, tree, usecase)
            ELSE IF r.res = AcceptsInput THEN r
            ELSE FindStackedAtLoop(stack, i - 1, x_abs, y_abs, Truncate(r.tree, idx), usecase)

\* OutputNode::find_stacked_at
FindStackedAt(o, stack, x, y, tree, usecase) ==
    LET abs == RectTranslateInv(GlobalPos(o), x, y)
    IN IF stack = <<>> THEN Found(Other, tree)
       ELSE FindStackedAtLoop(stack, Len(stack), abs[1], abs[2], tree, usecase)

\* OutputNode::find_layer_surface_at, the loop over the surfaces of one layer
\* from the top down and over the layers in the order given.
RECURSIVE FindLayerSurfaceAtLoop(_, _, _, _, _, _, _, _)
FindLayerSurfaceAtLoop(o, x, y, layers, i, tree, len, usecase) ==
    IF layers = <<>> THEN Found(Other, tree)
    ELSE IF i = 0
    THEN IF Len(layers) = 1 THEN Found(Other, tree)
         ELSE FindLayerSurfaceAtLoop(o, x, y, Tail(layers), Len(Layers(o, layers[2])),
                                     tree, len, usecase)
    ELSE LET surface == Layers(o, Head(layers))[i]
             p == LayerOutputExtents(surface)
             loc == RectTranslate(p, x, y)
             r == LayerSurfaceFindTreeAt(surface, loc[1], loc[2], tree, usecase)
         IN IF ~RectContains(p, x, y)
            THEN FindLayerSurfaceAtLoop(o, x, y, layers, i - 1, tree, len, usecase)
            ELSE IF r.res = AcceptsInput THEN r
            ELSE FindLayerSurfaceAtLoop(o, x, y, layers, i - 1, Truncate(r.tree, len),
                                        len, usecase)

\* OutputNode::find_layer_surface_at
FindLayerSurfaceAt(o, x, y, layers, tree, usecase) ==
    IF usecase = "SelectToplevel" THEN Found(Other, tree)
    ELSE FindLayerSurfaceAtLoop(o, x, y, layers, Len(Layers(o, Head(layers))),
                                tree, Len(tree), usecase)

\* The end of node_find_tree_at that searches the two lower layers also for
\* a point on the bar.
OutputFindWorkspaceAt_BarSearchesLayers(o, x, y, tree, usecase) ==
    LET bar_height == TitleHeight + 1
        non_exclusive_rect == NonExclusiveRectRel(o)
        loc == RectTranslate(non_exclusive_rect, x, y)
        ws == OutputWorkspace(o)
        len == Len(tree)
        r == WorkspaceFindTreeAt(ws, loc[1], loc[2] - bar_height,
                 Append(tree, FoundNode(ws, loc[1], loc[2] - bar_height)), usecase)
        inside == RectContains(non_exclusive_rect, x, y)
        t1 == IF inside /\ loc[2] >= bar_height /\ ws # "none"
              THEN (IF r.res = AcceptsInput THEN r.tree ELSE Truncate(r.tree, len))
              ELSE tree
        search_layers ==
            IF ~inside THEN TRUE
            ELSE IF loc[2] < bar_height THEN TRUE
            ELSE IF ws # "none" THEN r.res # AcceptsInput
            ELSE TRUE
    IN IF search_layers
       THEN Found(AcceptsInput, FindLayerSurfaceAt(o, x, y, <<BOTTOM, BACKGROUND>>, t1, usecase).tree)
       ELSE Found(AcceptsInput, t1)

\* OutputNode::node_find_tree_at, the end: the workspace inside the
\* non-exclusive rectangle below the bar, else the two lower layers.
OutputFindWorkspaceAt(o, x, y, tree, usecase) ==
    LET bar_height == TitleHeight + 1
        non_exclusive_rect == NonExclusiveRectRel(o)
        loc == RectTranslate(non_exclusive_rect, x, y)
        ws == OutputWorkspace(o)
        len == Len(tree)
        r == WorkspaceFindTreeAt(ws, loc[1], loc[2] - bar_height,
                 Append(tree, FoundNode(ws, loc[1], loc[2] - bar_height)), usecase)
        inside == RectContains(non_exclusive_rect, x, y)
        t1 == IF inside /\ loc[2] >= bar_height /\ ws # "none"
              THEN (IF r.res = AcceptsInput THEN r.tree ELSE Truncate(r.tree, len))
              ELSE tree
        search_layers ==
            IF ~inside THEN TRUE
            ELSE IF loc[2] < bar_height THEN FALSE
            ELSE IF ws # "none" THEN r.res # AcceptsInput
            ELSE TRUE
    IN IF search_layers
       THEN Found(AcceptsInput, FindLayerSurfaceAt(o, x, y, <<BOTTOM, BACKGROUND>>, t1, usecase).tree)
       ELSE Found(AcceptsInput, t1)

\* node_find_tree_at of an output that searches a locked session like an
\* unlocked one.
OutputFindTreeAt_IgnoreLock(o, x, y0, tree, usecase) ==
    LET bar_height == TitleHeight + 1
        ws == OutputWorkspace(o)
        y == IF usecase = "SelectWorkspace" /\ y0 >= bar_height THEN y0 - bar_height ELSE y0
        r1 == FindStackedAt(o, StackedAboveLayers, x, y, tree, usecase)
        r2 == FindLayerSurfaceAt(o, x, y, <<OVERLAY, TOP>>, r1.tree, usecase)
        r3 == FindStackedAt(o, Stacked, x, y, r2.tree, usecase)
        fs == IF ws # "none" THEN fullscreen[ws] ELSE "none"
    IN IF usecase = "SelectWorkspace" /\ y0 >= bar_height /\ ws # "none"
       THEN Found(AcceptsInput, Append(tree, FoundNode(ws, x, y)))
       ELSE IF r1.res = AcceptsInput THEN r1
       ELSE IF r2.res = AcceptsInput THEN r2
       ELSE IF r3.res = AcceptsInput THEN r3
       ELSE IF fs # "none"
       THEN ToplevelFindTreeAt(fs, x, y, Append(r3.tree, FoundNode(fs, x, y)), usecase)
       ELSE OutputFindWorkspaceAt(o, x, y, r3.tree, usecase)

\* node_find_tree_at of an output that searches the stacked nodes before the
\* Overlay and Top layers.
OutputFindTreeAt_StackedFirst(o, x, y0, tree, usecase) ==
    LET bar_height == TitleHeight + 1
        ls == LockSurface(o)
        ws == OutputWorkspace(o)
        y == IF usecase = "SelectWorkspace" /\ y0 >= bar_height THEN y0 - bar_height ELSE y0
        r1 == FindStackedAt(o, StackedAboveLayers, x, y, tree, usecase)
        r2 == FindStackedAt(o, Stacked, x, y, r1.tree, usecase)
        r3 == FindLayerSurfaceAt(o, x, y, <<OVERLAY, TOP>>, r2.tree, usecase)
        fs == IF ws # "none" THEN fullscreen[ws] ELSE "none"
    IN IF locked
       THEN IF usecase # "SelectToplevel" /\ ls # "none"
            THEN LockSurfaceFindTreeAt(ls, x, y0, Append(tree, FoundNode(ls, x, y0)), usecase)
            ELSE Found(AcceptsInput, tree)
       ELSE IF usecase = "SelectWorkspace" /\ y0 >= bar_height /\ ws # "none"
       THEN Found(AcceptsInput, Append(tree, FoundNode(ws, x, y)))
       ELSE IF r1.res = AcceptsInput THEN r1
       ELSE IF r2.res = AcceptsInput THEN r2
       ELSE IF r3.res = AcceptsInput THEN r3
       ELSE IF fs # "none"
       THEN ToplevelFindTreeAt(fs, x, y, Append(r3.tree, FoundNode(fs, x, y)), usecase)
       ELSE OutputFindWorkspaceAt(o, x, y, r3.tree, usecase)

\* OutputNode::node_find_tree_at
OutputFindTreeAt(o, x, y0, tree, usecase) ==
    LET bar_height == TitleHeight + 1
        ls == LockSurface(o)
        ws == OutputWorkspace(o)
        y == IF usecase = "SelectWorkspace" /\ y0 >= bar_height THEN y0 - bar_height ELSE y0
        r1 == FindStackedAt(o, StackedAboveLayers, x, y, tree, usecase)
        r2 == FindLayerSurfaceAt(o, x, y, <<OVERLAY, TOP>>, r1.tree, usecase)
        r3 == FindStackedAt(o, Stacked, x, y, r2.tree, usecase)
        fs == IF ws # "none" THEN fullscreen[ws] ELSE "none"
    IN IF locked
       THEN IF usecase # "SelectToplevel" /\ ls # "none"
            THEN LockSurfaceFindTreeAt(ls, x, y0, Append(tree, FoundNode(ls, x, y0)), usecase)
            ELSE Found(AcceptsInput, tree)
       ELSE IF usecase = "SelectWorkspace" /\ y0 >= bar_height /\ ws # "none"
       THEN Found(AcceptsInput, Append(tree, FoundNode(ws, x, y)))
       ELSE IF r1.res = AcceptsInput THEN r1
       ELSE IF r2.res = AcceptsInput THEN r2
       ELSE IF r3.res = AcceptsInput THEN r3
       ELSE IF fs # "none"
       THEN ToplevelFindTreeAt(fs, x, y, Append(r3.tree, FoundNode(fs, x, y)), usecase)
       ELSE OutputFindWorkspaceAt(o, x, y, r3.tree, usecase)

\* The outputs whose rectangle holds a point, in the order of the map.
OutputsAt(x, y) == SelectSeq(OutputOrder, LAMBDA o : RectContains(GlobalPos(o), x, y))

\* DisplayNode::node_find_tree_at below the root the caller has pushed: the
\* first output that holds the point and what that output finds.
RootFindTreeAt(x, y, usecase) ==
    LET hits == OutputsAt(x, y)
        o == Head(hits)
        loc == RectTranslate(GlobalPos(o), x, y)
        tree == <<FoundNode(Root, x, y)>>
    IN IF hits = <<>> THEN tree
       ELSE OutputFindTreeAt(o, loc[1], loc[2],
                             Append(tree, FoundNode(o, loc[1], loc[2])), usecase).tree

FoundNodes(tree) == [i \in 1..Len(tree) |-> tree[i].node]

\* ------------------------------------------------------------------ pointer focus

\* A call into a node, an owner or a wl_pointer object, kept in the order the
\* handler makes them; obj is the pointer object of a call into one, else 0.
ObjStep(w, op, s, n, obj) ==
    [w EXCEPT !.steps = Append(@, [op |-> op, seat |-> s, node |-> n, obj |-> obj])]
Step(w, op, s, n) == ObjStep(w, op, s, n, 0)

\* NodeSeatState::enter and NodeSeatState::leave
SeatStateEnter(w, s, n) == [w EXCEPT !.pointer_foci[n] = SmallMapInsert(@, s)]
SeatStateLeave(w, s, n) == [w EXCEPT !.pointer_foci[n] = SeqRemove(@, s)]

\* NodeSeatState::add_pointer_grab and NodeSeatState::remove_pointer_grab
AddPointerGrab(w, s, n) == [w EXCEPT !.grabs[n] = SmallMapInsert(@, s)]
RemovePointerGrab(w, s, n) == [w EXCEPT !.grabs[n] = SeqRemove(@, s)]

\* NodeSeatState::add_dnd_target and NodeSeatState::remove_dnd_target
AddDndTarget(w, s, n) == [w EXCEPT !.dnd_targets[n] = SmallMapInsert(@, s)]
RemoveDndTarget(w, s, n) == [w EXCEPT !.dnd_targets[n] = SeqRemove(@, s)]

\* Node::node_on_leave: a surface sends leave to the pointers of its client.
NodeLeave(w, s, n) == Step(w, "leave", s, n)

\* Node::node_on_pointer_enter: a toplevel calls enter_toplevel, which gives it
\* the keyboard focus; a surface sends enter to the pointers of its client.
NodeEnter(w, s, n) ==
    IF n \in Toplevels THEN FocusToplevel(Step(w, "enter", s, n), s, n)
    ELSE Step(w, "enter", s, n)

\* The length of the longest common prefix of two sequences.
Divergence(a, b) ==
    LET m == IF Len(a) < Len(b) THEN Len(a) ELSE Len(b)
        diff == {i \in 1..m : a[i] # b[i]}
    IN IF diff = {} THEN m ELSE (CHOOSE i \in diff : \A j \in diff : i <= j) - 1

RECURSIVE LeaveAll(_, _, _)
LeaveAll(w, s, nodes) ==
    IF nodes = <<>> THEN w
    ELSE LeaveAll(SeatStateLeave(NodeLeave(w, s, Last(nodes)), s, Last(nodes)), s, Front(nodes))

RECURSIVE EnterAll(_, _, _)
EnterAll(w, s, nodes) ==
    IF nodes = <<>> THEN w
    ELSE EnterAll(NodeEnter(SeatStateEnter(w, s, Head(nodes)), s, Head(nodes)), s, Tail(nodes))

\* PointerOwner::handle_pointer_position of the default owner: the nodes under
\* the pointer are found, the nodes of the old stack beyond the common prefix
\* are left from the top down, the new ones entered from the prefix up.
DefaultHandlePointerPosition(w, s, x_int, y_int) ==
    LET found == FoundNodes(RootFindTreeAt(x_int, y_int, "None"))
        old == w.pointer_stack[s]
        d == Divergence(found, old)
        w1 == LeaveAll(w, s, SubSeq(old, d + 1, Len(old)))
        w2 == [w1 EXCEPT !.pointer_stack[s] = SubSeq(old, 1, d)]
        w3 == EnterAll(w2, s, SubSeq(found, d + 1, Len(found)))
    IN [w3 EXCEPT !.pointer_stack[s] = found]

\* PointerOwner::handle_pointer_position of the dnd owner: the node under the
\* pointer becomes the target of the drag.
DndHandlePointerPosition(w, s, x_int, y_int) ==
    LET target == Last(FoundNodes(RootFindTreeAt(x_int, y_int, "None")))
        old == w.pointer_owner[s].node
        w1 == RemoveDndTarget(Step(w, "dnd_leave", s, old), s, old)
        w2 == Step(AddDndTarget(w1, s, target), "dnd_enter", s, target)
    IN IF target = old THEN Step(w, "dnd_motion", s, old)
       ELSE [w2 EXCEPT !.pointer_owner[s] = [kind |-> "dnd", node |-> target]]

\* PointerOwner::handle_pointer_position: a grab keeps the stack as it is and
\* tells the grabbing node about the motion.
HandlePointerPosition(w, s, x_int, y_int) ==
    LET w0 == Step(w, "handle_pointer_position", s, "none")
    IN CASE w.pointer_owner[s].kind = "default" -> DefaultHandlePointerPosition(w0, s, x_int, y_int)
         [] w.pointer_owner[s].kind = "grab" -> Step(w0, "motion", s, w.pointer_owner[s].node)
         [] OTHER -> DndHandlePointerPosition(w0, s, x_int, y_int)

\* WlSeatGlobal::handle_new_position
HandleNewPosition(w, s, p) == HandlePointerPosition(w, s, RoundDown(p[1]), RoundDown(p[2]))

\* State::tree_changed
TriggerTreeChanged(w) == [w EXCEPT !.tree_changed = TRUE]

DefaultOwner == [kind |-> "default", node |-> "none"]

\* PointerOwner::revert_to_default: a grab gives up its node, a drag leaves
\* its target; the pointer position is looked at again later.
RevertToDefault(w, s) ==
    LET own == w.pointer_owner[s]
        w0 == Step(w, "revert_to_default", s, own.node)
        w1 == IF own.kind = "grab" THEN RemovePointerGrab(w0, s, own.node)
              ELSE IF own.kind = "dnd"
              THEN RemoveDndTarget(Step(w0, "dnd_leave", s, own.node), s, own.node)
              ELSE w0
    IN IF own.kind = "default" THEN w0
       ELSE TriggerTreeChanged([w1 EXCEPT !.pointer_owner[s] = DefaultOwner])

\* PointerOwner::dnd_target_removed: a drag falls back to the root as target.
DndTargetRemoved(w, s) ==
    LET own == w.pointer_owner[s]
        w0 == Step(w, "dnd_target_removed", s, own.node)
        w1 == RemoveDndTarget(Step(w0, "dnd_leave", s, own.node), s, own.node)
    IN IF own.kind # "dnd" THEN w0
       ELSE TriggerTreeChanged([w1 EXCEPT !.pointer_owner[s] = [kind |-> "dnd", node |-> Root]])

\* ------------------------------------------------------------------ node destruction

\* The loop of release_kb_focus2 ends after one turn per focused seat unless a
\* turn puts a seat back into the map it pops from; a turn beyond that number
\* shows that it never ends.
ReleaseTurns == Cardinality(Seats) + 1

\* NodeSeatState::release_kb_focus2: pop every seat whose keyboard focus is on
\* the node, end its keyboard grab, point its keyboard node at the root and,
\* with focus_last, focus the last toplevel of its focus history.
RECURSIVE ReleaseKbFocus2Loop(_, _, _, _)
ReleaseKbFocus2Loop(w, n, focus_last, turns) ==
    IF w.kb_foci[n] = <<>>
    THEN w
    ELSE IF turns = 0
    THEN [w EXCEPT !.hung = TRUE]
    ELSE LET s == Last(w.kb_foci[n])
             w1 == Step([w EXCEPT !.kb_foci[n] = Front(@)], "release_kb_focus", s, n)
             w2 == UngrabKb(w1, s)
             w3 == [w2 EXCEPT !.keyboard_node[s] = Root]
             w4 == IF focus_last /\ w3.history[s] # <<>>
                   THEN FocusNode(w3, s, FocusSurface(Last(w3.history[s])))
                   ELSE w3
         IN ReleaseKbFocus2Loop(w4, n, focus_last, turns - 1)

\* release_kb_focus2 that never goes back to the focus history.
ReleaseKbFocus2_NoRefocus(w, n, focus_last) == ReleaseKbFocus2Loop(w, n, FALSE, ReleaseTurns)

ReleaseKbFocus2(w, n, focus_last) == ReleaseKbFocus2Loop(w, n, focus_last, ReleaseTurns)

\* NodeSeatState::destroy_node2, the grabs: every seat whose pointer grab is
\* on the node goes back to the default pointer owner.
RECURSIVE DestroyGrabs(_, _)
DestroyGrabs(w, n) ==
    IF w.grabs[n] = <<>> THEN w
    ELSE LET s == Last(w.grabs[n])
         IN DestroyGrabs(RevertToDefault([w EXCEPT !.grabs[n] = Front(@)], s), n)

\* NodeSeatState::destroy_node2, the dnd targets.
RECURSIVE DestroyDndTargets(_, _)
DestroyDndTargets(w, n) ==
    IF w.dnd_targets[n] = <<>> THEN w
    ELSE LET s == Last(w.dnd_targets[n])
         IN DestroyDndTargets(DndTargetRemoved([w EXCEPT !.dnd_targets[n] = Front(@)], s), n)

\* A pop of the pointer stack that stops in front of the node.
RECURSIVE PopPointerStack_KeepNode(_, _, _)
PopPointerStack_KeepNode(w, s, n) ==
    LET ps == w.pointer_stack[s]
        last_node == Last(ps)
        w1 == Step([w EXCEPT !.pointer_stack[s] = Front(ps)], "pointer_pop", s, last_node)
    IN IF ps = <<>> \/ last_node = n THEN w
       ELSE PopPointerStack_KeepNode(NodeLeave(SeatStateLeave(w1, s, last_node), s, last_node), s, n)

\* NodeSeatState::destroy_node2, the inner loop: the pointer stack of a seat
\* is popped until the node itself has been popped; every node popped before
\* it is left.
RECURSIVE PopPointerStack(_, _, _)
PopPointerStack(w, s, n) ==
    LET ps == w.pointer_stack[s]
        last_node == Last(ps)
        w1 == Step([w EXCEPT !.pointer_stack[s] = Front(ps)], "pointer_pop", s, last_node)
    IN IF ps = <<>> THEN w
       ELSE IF last_node = n THEN w1
       ELSE PopPointerStack(NodeLeave(SeatStateLeave(w1, s, last_node), s, last_node), s, n)

\* NodeSeatState::destroy_node2, the pointer foci.
RECURSIVE DestroyPointerFoci(_, _)
DestroyPointerFoci(w, n) ==
    IF w.pointer_foci[n] = <<>> THEN w
    ELSE LET s == Last(w.pointer_foci[n])
             w1 == [w EXCEPT !.pointer_foci[n] = Front(@)]
         IN DestroyPointerFoci(TriggerTreeChanged(PopPointerStack(w1, s, n)), n)

\* destroy_node2 that releases the keyboard foci first.
DestroyNode2_KeyboardFirst(w, n, focus_last) ==
    DestroyPointerFoci(DestroyDndTargets(DestroyGrabs(ReleaseKbFocus2(w, n, focus_last), n), n), n)

\* NodeSeatState::destroy_node2: grabs, dnd targets, pointer foci, keyboard.
DestroyNode2(w, n, focus_last) ==
    ReleaseKbFocus2(DestroyPointerFoci(DestroyDndTargets(DestroyGrabs(w, n), n), n),
                    n, focus_last)

\* set_visible that lets the seats go back to their focus history.
SetVisibleNode_FocusLast(w, n, visible) ==
    IF visible THEN w
    ELSE DestroyNode2(IF w.kb_foci[n] # <<>>
                      THEN Step(w, "active_changed", "none", n)
                      ELSE w, n, TRUE)

\* NodeSeatState::set_visible, what it does to the seats: nothing for a node
\* that becomes visible; for a node that is hidden node_active_changed(false)
\* if a seat has its keyboard focus there, then destroy_node2 without
\* focus_last.
SetVisibleNode(w, n, visible) ==
    IF visible THEN w
    ELSE DestroyNode2(IF w.kb_foci[n] # <<>>
                      THEN Step(w, "active_changed", "none", n)
                      ELSE w, n, FALSE)

\* ------------------------------------------------------------------ visibility

\* The part of the scene a change of visibility works on.
VisWorld(w) == [w |-> w, hidden |-> hidden, title_visible |-> title_visible]

\* The order in which the nodes of a subtree are visited.
NodeOrder ==
    <<Root, "A", "B", "WA", "WB", "WC", "WE", "T1", "T2", "T3", "T4", "S1", "S2", "S3",
      "S4", "F", "F2", "P", "L", "LB", "LO", "LT", "LM", "LG", "LS">>
SubtreeSeqs == [n \in Nodes |-> SelectSeq(NodeOrder, LAMBDA m : m \in Subtree(n))]
SubtreeSeq(n) == SubtreeSeqs[n]

\* The nodes of a sequence some seat is anchored to: for every other node
\* NodeSeatState::set_visible has nothing to do.
Anchored(w, q) ==
    SelectSeq(q, LAMBDA n : \/ w.kb_foci[n] # <<>> \/ w.pointer_foci[n] # <<>>
                            \/ w.grabs[n] # <<>> \/ w.dnd_targets[n] # <<>>)

RECURSIVE SetVisibleNodes(_, _, _)
SetVisibleNodes(w, q, visible) ==
    IF q = <<>> THEN w
    ELSE SetVisibleNodes(SetVisibleNode(w, Head(q), visible), Tail(q), visible)

\* set_visible of a node of the tree, a workspace, a layer surface or a
\* surface: the node and the nodes below it take the flag, and each of them
\* tells its NodeSeatState.
TreeSetVisible(v, n, visible) ==
    [v EXCEPT
        !.w = SetVisibleNodes(ObjStep(@, "set_visible", "none", n, IF visible THEN 1 ELSE 0),
                              Anchored(@, SubtreeSeq(n)), visible),
        !.hidden = IF visible THEN @ \ Subtree(n) ELSE @ \cup Subtree(n)]

\* set_layer_visible!: every surface of a layer.
RECURSIVE SetLayerVisible(_, _, _)
SetLayerVisible(v, q, visible) ==
    IF q = <<>> THEN v
    ELSE SetLayerVisible(TreeSetVisible(v, Head(q), visible), Tail(q), visible)

\* update_visible that shows the lower layers and the title below a
\* fullscreen window.
LowerVisible_IgnoreFullscreen(visible, have_fullscreen) == visible

\* OutputNode::update_visible, lower_visible
LowerVisible(visible, have_fullscreen) == visible /\ ~have_fullscreen

\* OutputNode::update_visible, for an output whose active workspace is ws,
\* when State::root_visible returns root_visible.
UpdateVisibleOutput(v, o, ws, root_visible) ==
    LET v1 == IF locked /\ LockSurface(o) # "none"
              THEN TreeSetVisible(v, LockSurface(o), root_visible)
              ELSE v
        visible == IF locked THEN FALSE ELSE root_visible
        have_fullscreen == ws # "none" /\ fullscreen[ws] # "none"
        lower_visible == LowerVisible(visible, have_fullscreen)
        v2 == [v1 EXCEPT !.title_visible[o] = lower_visible]
        v3 == SetLayerVisible(v2, Layers(o, BACKGROUND), lower_visible)
        v4 == SetLayerVisible(v3, Layers(o, BOTTOM), lower_visible)
        v5 == IF ws # "none" THEN TreeSetVisible(v4, ws, visible) ELSE v4
        v6 == SetLayerVisible(v5, Layers(o, TOP), visible)
    IN SetLayerVisible(v6, Layers(o, OVERLAY), visible)

\* collect_kb_foci2: the seats whose keyboard focus is on the nodes of a
\* sequence, in the order of the nodes.
RECURSIVE CollectKbFoci(_, _)
CollectKbFoci(w, q) ==
    IF q = <<>> THEN <<>> ELSE w.kb_foci[Head(q)] \o CollectKbFoci(w, Tail(q))

\* WorkspaceNode::is_empty
IsEmpty(ws) ==
    /\ WorkspaceContainer(ws) = "none" /\ fullscreen[ws] = "none"
    /\ \A n \in Nodes : Parent(n) # ws

\* WorkspaceNode::node_do_focus: the focus goes to the fullscreen window of the
\* workspace, else to the window of its container.
WorkspaceDoFocus(w, s, ws) ==
    LET tl == IF fullscreen[ws] # "none" THEN fullscreen[ws] ELSE WorkspaceContainer(ws)
        w1 == Step(w, "node_do_focus", s, ws)
    IN IF tl = "none" THEN w1 ELSE FocusToplevel(w1, s, tl)

\* show_workspace that leaves the seats of the old workspace without a focus.
ShowWorkspaceFocus_Skip(w, seats, ws) == w

\* OutputNode::show_workspace, the loop over the seats that had their
\* keyboard focus in the old workspace.
RECURSIVE ShowWorkspaceFocus(_, _, _)
ShowWorkspaceFocus(w, seats, ws) ==
    IF seats = <<>> THEN w
    ELSE ShowWorkspaceFocus(WorkspaceDoFocus(w, Head(seats), ws), Tail(seats), ws)

\* OutputNode::show_workspace after the test for the same workspace: an
\* empty old workspace is cleared and removed, another one is hidden;
\* update_visible; the seats of the old workspace get their focus in ws.
ShowWorkspaceOutput(v, o, old, ws, root_visible) ==
    LET seats == CollectKbFoci(v.w, SubtreeSeq(old))
        v1 == IF IsEmpty(old)
              THEN [v EXCEPT !.w = Step(Step(@, "clear", "none", old), "remove", "none", old)]
              ELSE [TreeSetVisible(v, old, FALSE) EXCEPT
                       !.w = Step(@, "flush_jay_workspaces", "none", old)]
        v2 == UpdateVisibleOutput(v1, o, ws, root_visible)
    IN [v2 EXCEPT !.w = ShowWorkspaceFocus(@, seats, ws)]

\* ------------------------------------------------------------------ clients and the jay_compositor object

\* The most object ids one client uses.
MaxObj == 2
ObjIds == 1..MaxObj

JAY_COMPOSITOR == "jay_compositor"
JAY_LOG_FILE == "jay_log_file"
JAY_SCREENSHOT == "jay_screenshot"
JAY_IDLE == "jay_idle"

\* The levels of CliLogLevel and a number that is none of them.
LogLevels == {"error", "warn", "info", "debug", "trace"}
UnknownLevel == "unknown"

\* One protocol event to a client, other than the wl_keyboard events.
ClientEvent(ev, c, obj, arg) == [ev |-> ev, client |-> c, obj |-> obj, arg |-> arg]

\* The part of the clients' state a request handler works on.  err is the Err
\* a step has returned: the steps after it are not run.
ClientWorld == [objects |-> objects, events |-> <<>>, err |-> FALSE]

InitClients ==
    /\ symmetric_delete = [c \in Clients |-> FALSE]
    /\ objects = [c \in Clients |-> <<>>]
    /\ killed = [c \in Clients |-> FALSE]
    /\ ring_stopped = FALSE
    /\ log_level = "info"
    /\ events = <<>>
    /\ opted_in = {}
    /\ screencopies = [o \in Outputs |-> <<>>]
    /\ pending_output_render_data = <<>>
    /\ update_render_data_scheduled = [o \in Outputs |-> FALSE]
    /\ global_destroyed = {}
    /\ schedule_calls = [o \in Outputs |-> 0]
    /\ signal_fd = <<>>
    /\ el_stopped = FALSE
    /\ data_devices = [c \in Clients |-> <<>>]

\* Client::parse: a malformed request is an error.
Parse(cw, wellformed) == IF wellformed THEN cw ELSE [cw EXCEPT !.err = TRUE]

\* Client::event
SendEvent(cw, ev) == IF cw.err THEN cw ELSE [cw EXCEPT !.events = Append(@, ev)]

\* Client::add_client_obj: an id that is in use is an error.
AddClientObj(cw, c, id, interface) ==
    IF cw.err THEN cw
    ELSE IF id \in DOMAIN cw.objects[c] THEN [cw EXCEPT !.err = TRUE]
    ELSE [cw EXCEPT !.objects[c] =
             [x \in DOMAIN @ \cup {id} |-> IF x = id THEN interface ELSE @[x]]]

\* Client::remove_obj: the object leaves the table; a client with symmetric
\* delete is sent the confirmation of the deletion.
RemoveObj(cw, c, id) ==
    IF cw.err THEN cw
    ELSE IF id \notin DOMAIN cw.objects[c] THEN [cw EXCEPT !.err = TRUE]
    ELSE LET cw1 == [cw EXCEPT !.objects[c] = [x \in DOMAIN @ \ {id} |-> @[x]]]
         IN IF symmetric_delete[c]
            THEN SendEvent(cw1, ClientEvent("delete_id", c, id, "none"))
            ELSE cw1

\* A destroy handler that leaves the object in the table.
JayDestroy_KeepObject(cw, c, id, wellformed) == Parse(cw, wellformed)

\* JayCompositor::destroy
JayDestroy(cw, c, id, wellformed) == RemoveObj(Parse(cw, wellformed), c, id)

\* JayCompositor::get_log_file
JayGetLogFile(cw, c, id, new_id, wellformed) ==
    SendEvent(AddClientObj(Parse(cw, wellformed), c, new_id, JAY_LOG_FILE),
              ClientEvent("path", c, new_id, "logfile"))

\* JayCompositor::take_screenshot; shot is whether take_screenshot succeeded.
JayTakeScreenshot(cw, c, id, new_id, shot, wellformed) ==
    LET cw1 == AddClientObj(Parse(cw, wellformed), c, new_id, JAY_SCREENSHOT)
        cw2 == SendEvent(cw1, ClientEvent(IF shot THEN "dmabuf" ELSE "error", c, new_id, "none"))
    IN RemoveObj(cw2, c, new_id)

\* JayCompositor::get_idle
JayGetIdle(cw, c, id, new_id, wellformed) ==
    AddClientObj(Parse(cw, wellformed), c, new_id, JAY_IDLE)

\* JayCompositor::get_client_id
JayGetClientId(cw, c, id, wellformed) ==
    SendEvent(Parse(cw, wellformed), ClientEvent("client_id", c, id, c))

\* JayCompositor::set_log_level, the match of the level.
JaySetLogLevel(cw, level, wellformed) ==
    LET cw1 == Parse(cw, wellformed)
    IN IF cw1.err THEN cw1
       ELSE IF level \in LogLevels THEN cw1 ELSE [cw1 EXCEPT !.err = TRUE]

\* JayCompositor::unlock, the part on the scene: the lock ends, the lock
\* surface of every output is taken and destroyed, the tree has changed.
RECURSIVE DestroyLockSurfaces(_, _)
DestroyLockSurfaces(w, os) ==
    IF os = <<>> THEN w
    ELSE LET ls == LockSurface(Head(os))
         IN DestroyLockSurfaces(IF ls # "none" /\ ls \notin destroyed
                                THEN DestroyNode2(w, ls, TRUE) ELSE w, Tail(os))

\* unlock that leaves the lock object as it is.
UnlockScene_NoFinish(w) ==
    Step(TriggerTreeChanged(DestroyLockSurfaces(w, OutputOrder)), "damage", "none", "none")

UnlockScene(w) ==
    Step(TriggerTreeChanged(DestroyLockSurfaces(Step(w, "lock_finish", "none", "none"),
                                                OutputOrder)),
         "damage", "none", "none")

\* ------------------------------------------------------------------ scroll events

\* wl_pointer: the versions of wl_seat that brought the events, and the axis
\* source from which on a source is a wheel tilt.
AXIS_SOURCE_SINCE_VERSION == 5
AXIS_DISCRETE_SINCE_VERSION == 5
AXIS_STOP_SINCE_VERSION == 5
POINTER_FRAME_SINCE_VERSION == 5
WHEEL_TILT_SINCE_VERSION == 6
WHEEL == 0
WHEEL_TILT == 3

\* Option: None and Some(x).
None == <<>>
Some(x) == <<x>>

\* for_each_pointer that hands the event to every pointer, whatever its version.
ForEachPointer_AnyVersion(ver, c) == [k \in 1..Len(pointers[c]) |-> k]

\* WlSeatGlobal::for_each_pointer: the pointers of the client's bindings of
\* the seat whose version is at least ver, in the order of the bindings.
ForEachPointer(ver, c) ==
    SelectSeq([k \in 1..Len(pointers[c]) |-> k], LAMBDA k : pointers[c][k] >= ver)

\* surface_pointer_event that hands the event to the pointers of every client.
SurfacePointerEvent_AllClients(evs, ver, surface, ev, arg) ==
    LET ps1 == ForEachPointer(ver, "c1")
        ps2 == ForEachPointer(ver, "c2")
    IN evs \o [i \in 1..Len(ps1) |-> ClientEvent(ev, "c1", ps1[i], arg)]
           \o [i \in 1..Len(ps2) |-> ClientEvent(ev, "c2", ps2[i], arg)]

\* WlSeatGlobal::surface_pointer_event
SurfacePointerEvent(evs, ver, surface, ev, arg) ==
    LET c == SurfaceClient(surface)
        ps == ForEachPointer(ver, c)
    IN evs \o [i \in 1..Len(ps) |-> ClientEvent(ev, c, ps[i], arg)]

\* WlSeatGlobal::surface_pointer_frame
SurfacePointerFrame(evs, surface) ==
    SurfacePointerEvent(evs, POINTER_FRAME_SINCE_VERSION, surface, "frame", "none")

\* The axes the loop of scroll_surface visits: `for i in 0..1`, a range that
\* leaves out its end.
ScrollLoop == <<0>>

\* scroll_surface, one turn of the loop for axis i.
ScrollAxis(evs, surface, event, i) ==
    LET e1 == IF event.discrete[i + 1] # None
              THEN SurfacePointerEvent(evs, AXIS_DISCRETE_SINCE_VERSION, surface,
                                       "axis_discrete", <<i, event.discrete[i + 1][1]>>)
              ELSE evs
        e2 == IF event.axis[i + 1] # None
              THEN SurfacePointerEvent(e1, 0, surface, "axis", <<i, event.axis[i + 1][1]>>)
              ELSE e1
    IN IF event.stop[i + 1]
       THEN SurfacePointerEvent(e2, AXIS_STOP_SINCE_VERSION, surface, "axis_stop", <<i>>)
       ELSE e2

RECURSIVE ScrollAxes(_, _, _, _)
ScrollAxes(evs, surface, event, is) ==
    IF is = <<>> THEN evs
    ELSE ScrollAxes(ScrollAxis(evs, surface, event, Head(is)), surface, event, Tail(is))

\* WlSeatGlobal::scroll_surface
ScrollSurfaceEvents(surface, event) ==
    LET since == IF event.source[1] >= WHEEL_TILT THEN WHEEL_TILT_SINCE_VERSION
                 ELSE AXIS_SOURCE_SINCE_VERSION
        e1 == IF event.source # None
              THEN SurfacePointerEvent(<<>>, since, surface, "axis_source", <<event.source[1]>>)
              ELSE <<>>
    IN SurfacePointerFrame(ScrollAxes(e1, surface, event, ScrollLoop), surface)

\* ------------------------------------------------------------------ pointer enter, leave and motion

\* WlSeatGlobal::motion_surface
MotionSurface(surface) ==
    SurfacePointerFrame(SurfacePointerEvent(<<>>, 0, surface, "motion", "none"), surface)

\* WlSeatGlobal::enter_surface
EnterSurface(surface) ==
    SurfacePointerFrame(SurfacePointerEvent(<<>>, 0, surface, "enter", "serial"), surface)

\* WlSeatGlobal::leave_surface
LeaveSurface(surface) ==
    SurfacePointerFrame(SurfacePointerEvent(<<>>, 0, surface, "leave", "serial"), surface)

PointerCallbacks == {"motion_surface", "enter_surface", "leave_surface"}

\* ------------------------------------------------------------------ button events

\* WlSurface::accepts_kb_focus: S3 is a window that asks for no keyboard input.
AcceptsKbFocus(surface) == surface # "S3"

\* The calls of surface_pointer_event and surface_pointer_frame into the
\* pointers ps of the surface's client.
RECURSIVE PointerCalls(_, _, _, _, _)
PointerCalls(w, s, surface, ps, op) ==
    IF ps = <<>> THEN w
    ELSE PointerCalls(ObjStep(w, op, s, surface, Head(ps)), s, surface, Tail(ps), op)

\* button_surface that gives every pressed surface the keyboard focus.
ButtonSurface_FocusAlways(w, s, surface, bstate) ==
    LET c == SurfaceClient(surface)
        w1 == Step(w, IF bstate = PRESSED THEN "button_pressed" ELSE "button_released", s, surface)
        w2 == PointerCalls(w1, s, surface, ForEachPointer(0, c), "send_button")
        w3 == PointerCalls(w2, s, surface, ForEachPointer(POINTER_FRAME_SINCE_VERSION, c),
                           "send_frame")
    IN IF bstate = PRESSED THEN FocusNode(w3, s, surface) ELSE w3

\* WlSeatGlobal::button_surface: the button goes to every pointer of the
\* surface's client, the frame to those that know it, and a press gives a
\* surface that accepts it the keyboard focus.
ButtonSurface(w, s, surface, bstate) ==
    LET c == SurfaceClient(surface)
        w1 == Step(w, IF bstate = PRESSED THEN "button_pressed" ELSE "button_released", s, surface)
        w2 == PointerCalls(w1, s, surface, ForEachPointer(0, c), "send_button")
        w3 == PointerCalls(w2, s, surface, ForEachPointer(POINTER_FRAME_SINCE_VERSION, c),
                           "send_frame")
    IN IF bstate = PRESSED /\ AcceptsKbFocus(surface) THEN FocusNode(w3, s, surface) ELSE w3

\* Node::node_on_button
NodeButton(w, s, n, bstate) == IF IsSurface(n) THEN ButtonSurface(w, s, n, bstate) ELSE w

\* ------------------------------------------------------------------ screencopies

\* The most captures that wait on one output.
MaxCaptures == 2
CaptureIds == 1..MaxCaptures

\* What a pending capture has attached: no buffer, a destroyed buffer, a
\* buffer without storage, a shm buffer, a dmabuf with or without framebuffer.
NO_BUFFER == "no_buffer"
DESTROYED_BUFFER == "destroyed_buffer"
NO_STORAGE == "no_storage"
SHM == "shm"
DMABUF == "dmabuf"
DMABUF_NO_FB == "dmabuf_no_fb"
Buffers == {NO_BUFFER, DESTROYED_BUFFER, NO_STORAGE, SHM, DMABUF, DMABUF_NO_FB}

\* ZwlrScreencopyFrameV1: its id, its client, its buffer and with_damage.
Captures == [id : CaptureIds, client : {"c1"}, buffer : Buffers, with_damage : BOOLEAN]

\* perform_wlr_screencopies that goes on after a failure as if there was none.
CaptureEvents_NoContinue(capture, copy_ok) ==
    LET failed == <<ClientEvent("failed", capture.client, capture.id, "none")>>
        damage == IF capture.with_damage
                  THEN <<ClientEvent("damage", capture.client, capture.id, "none")>> ELSE <<>>
        ready == <<ClientEvent("ready", capture.client, capture.id, "now")>>
    IN IF \/ capture.buffer \in {NO_BUFFER, DESTROYED_BUFFER, DMABUF_NO_FB}
          \/ (capture.buffer \in {SHM, DMABUF} /\ ~copy_ok)
       THEN failed \o damage \o ready
       ELSE damage \o ready

\* perform_wlr_screencopies, one turn of the loop: the events one capture is
\* sent.  copy_ok is whether the copy into its buffer succeeded.
CaptureEvents(capture, copy_ok) ==
    LET failed == <<ClientEvent("failed", capture.client, capture.id, "none")>>
        damage == IF capture.with_damage
                  THEN <<ClientEvent("damage", capture.client, capture.id, "none")>> ELSE <<>>
        ready == <<ClientEvent("ready", capture.client, capture.id, "now")>>
    IN CASE capture.buffer = NO_BUFFER -> failed
         [] capture.buffer = DESTROYED_BUFFER -> failed
         [] capture.buffer = NO_STORAGE -> damage \o ready
         [] capture.buffer = SHM -> IF copy_ok THEN damage \o ready ELSE failed
         [] capture.buffer = DMABUF_NO_FB -> failed
         [] capture.buffer = DMABUF -> IF copy_ok THEN damage \o ready ELSE failed

\* perform_wlr_screencopies, the loop over the drained captures.
RECURSIVE DrainCaptures(_, _, _)
DrainCaptures(queue, copy_ok, i) ==
    IF i > Len(queue) THEN <<>>
    ELSE CaptureEvents(queue[i], copy_ok[i]) \o DrainCaptures(queue, copy_ok, i + 1)

\* ------------------------------------------------------------------ key events

\* key_event that looks the shortcuts up under the modifiers the keyboard
\* state has after the key is applied to it.
MatchingShortcuts_AfterUpdate(s, key, kstate) ==
    LET new_mods == ModsOf(KbUpdate(kb_state[s], key, kstate))
        hit(sym) == <<new_mods.mods_effective, sym>> \in DOMAIN shortcuts[s]
        syms == IF kstate = PRESSED THEN SelectSeq(UnmodifiedKeysyms(key), hit) ELSE <<>>
    IN [i \in 1..Len(syms) |->
           [mods |-> shortcuts[s][<<new_mods.mods_effective, syms[i]>>], sym |-> syms[i]]]

\* A pressed_keys update that takes every key event for a change.
KeyAccepted_Always(pk, key, kstate) == TRUE

\* key_event, the pressed_keys part: a release of a key that is not held and a
\* press of a key that is held are dropped.
KeyAccepted(pk, key, kstate) ==
    IF kstate = RELEASED THEN key \in pk ELSE key \notin pk

PressedKeysAfter(pk, key, kstate) ==
    IF kstate = RELEASED THEN pk \ {key} ELSE pk \cup {key}

\* key_event, the lookup: on a press, every unmodified keysym of the key that
\* the shortcut table holds under the effective modifiers before the update.
MatchingShortcuts(s, key, kstate) ==
    LET old_mods == ModsOf(kb_state[s])
        hit(sym) == <<old_mods.mods_effective, sym>> \in DOMAIN shortcuts[s]
        syms == IF kstate = PRESSED THEN SelectSeq(UnmodifiedKeysyms(key), hit) ELSE <<>>
    IN [i \in 1..Len(syms) |->
           [mods |-> shortcuts[s][<<old_mods.mods_effective, syms[i]>>], sym |-> syms[i]]]

\* ConfigProxy::invoke_shortcut
InvokeShortcut(w, s, modsym) ==
    [w EXCEPT !.invoked = Append(@, [seat |-> s, mods |-> modsym.mods, sym |-> modsym.sym])]

RECURSIVE InvokeAll(_, _, _)
InvokeAll(w, s, scs) ==
    IF scs = <<>> THEN w ELSE InvokeAll(InvokeShortcut(w, s, Head(scs)), s, Tail(scs))

\* key_event that hands the key to the keyboard node also when a shortcut
\* matched.
KeyDispatch_KeyAlways(w, s, node, key, kstate, scs) ==
    LET w1 == NodeKey(w, s, node, key, kstate)
    IN IF scs = <<>> THEN w1 ELSE IF config THEN InvokeAll(w1, s, scs) ELSE w1

\* key_event, the dispatch: without a matching shortcut the key goes to the
\* keyboard node, otherwise the shortcuts go to the configuration, if any.
KeyDispatch(w, s, node, key, kstate, scs) ==
    IF scs = <<>>
    THEN NodeKey(w, s, node, key, kstate)
    ELSE IF config THEN InvokeAll(w, s, scs) ELSE w

\* key_event that reports the modifiers only for a key it delivered.
KeyModsDispatch_NotWhenConsumed(w, s, node, old_kb, new_kb) ==
    IF ModsOf(new_kb) # ModsOf(old_kb) /\ w.invoked = <<>> /\ w.sent # <<>>
    THEN NodeMods(w, s, node, ModsOf(new_kb))
    ELSE w

\* key_event, the end: changed modifiers go to the keyboard node.
KeyModsDispatch(w, s, node, old_kb, new_kb) ==
    IF ModsOf(new_kb) # ModsOf(old_kb) THEN NodeMods(w, s, node, ModsOf(new_kb)) ELSE w

\* ------------------------------------------------------------------ history variables

EventsTo(log, o, kinds) ==
    {i \in 1..Len(log) : /\ <<log[i].seat, log[i].client, log[i].kb>> = o
                         /\ log[i].ev \in kinds}

Max(S) == CHOOSE x \in S : \A y \in S : y <= x

AnnouncedAfter(log) ==
    [o \in KbObjects |->
        LET is == EventsTo(log, o, {"modifiers"})
        IN IF is = {} THEN announced[o] ELSE log[Max(is)].mods]

EnteredAfter(log) ==
    [o \in KbObjects |->
        LET is == EventsTo(log, o, {"enter", "leave"})
        IN IF is = {} THEN entered[o]
           ELSE IF log[Max(is)].ev = "enter" THEN log[Max(is)].surface ELSE "none"]

\* The handler before the last one, kept when it was add_shortcut.
NoPrev == [op |-> "none", seat |-> "none", args |-> <<>>, old_shortcuts |-> <<>>]

NoLast ==
    [op |-> "init", seat |-> "none", node |-> "none", key |-> "none",
     kstate |-> "none", accepted |-> FALSE, old_kb |-> InitKbState,
     old_node |-> "none", press_consumed |-> FALSE, old_foci |-> <<>>,
     old_stack |-> <<>>, old_pos |-> <<0, 0>>, old_output |-> "none",
     delta |-> <<0, 0>>, offered |-> <<>>, args |-> <<>>, old_pressed |-> {},
     old_shortcuts |-> <<>>, prev |-> NoPrev, client |-> "none", obj |-> 0,
     ok |-> TRUE, old_symmetric_delete |-> FALSE, old_locked |-> FALSE,
     moves |-> <<>>]

LastRec(op, s, n, key, kstate, accepted) ==
    [NoLast EXCEPT
        !.op = op, !.seat = s, !.node = n, !.key = key, !.kstate = kstate,
        !.accepted = accepted,
        !.old_kb = IF s \in Seats THEN kb_state[s] ELSE InitKbState,
        !.old_node = IF s \in Seats THEN keyboard_node[s] ELSE "none",
        !.press_consumed = IF s \in Seats THEN key \in consumed[s] ELSE FALSE,
        !.old_pressed = IF s \in Seats THEN pressed_keys[s] ELSE {},
        !.old_shortcuts = IF s \in Seats THEN shortcuts[s] ELSE <<>>]

\* The end of a handler: its world becomes the state.
Commit(w, rec) ==
    /\ keyboard_node' = w.keyboard_node
    /\ kb_owner' = w.kb_owner
    /\ history' = w.history
    /\ kb_foci' = w.kb_foci
    /\ pointer_foci' = w.pointer_foci
    /\ grabs' = w.grabs
    /\ dnd_targets' = w.dnd_targets
    /\ pointer_stack' = w.pointer_stack
    /\ pointer_owner' = w.pointer_owner
    /\ tree_changed' = w.tree_changed
    /\ hung' = w.hung
    /\ sent' = w.sent
    /\ invoked' = w.invoked
    /\ steps' = w.steps
    /\ last' = [rec EXCEPT !.offered = w.offered, !.moves = w.moves]
    /\ announced' = AnnouncedAfter(w.sent)
    /\ entered' = EnteredAfter(w.sent)

\* ------------------------------------------------------------------ handlers

\* WlSeatGlobal::key_event
KeyEvent(s, key, kstate) ==
    /\ ~hung
    /\ LET accepted == KeyAccepted(pressed_keys[s], key, kstate)
           scs == MatchingShortcuts(s, key, kstate)
           new_kb == KbUpdate(kb_state[s], key, kstate)
           node == keyboard_node[s]
           w1 == KeyDispatch(World, s, node, key, kstate, scs)
           w2 == KeyModsDispatch(w1, s, node, kb_state[s], new_kb)
       IN IF accepted
          THEN /\ pressed_keys' = [pressed_keys EXCEPT ![s] = PressedKeysAfter(@, key, kstate)]
               /\ kb_state' = [kb_state EXCEPT ![s] = new_kb]
               /\ consumed' = [consumed EXCEPT ![s] =
                                 IF kstate = RELEASED THEN @ \ {key}
                                 ELSE IF scs # <<>> THEN @ \cup {key} ELSE @]
               /\ held' = [held EXCEPT ![s] =
                             IF kstate = PRESSED THEN @ \cup {key} ELSE @ \ {key}]
               /\ Commit(w2, LastRec("key_event", s, node, key, kstate, TRUE))
          ELSE /\ UNCHANGED <<pressed_keys, kb_state, consumed, held>>
               /\ Commit(World, LastRec("key_event", s, node, key, kstate, FALSE))
    /\ UNCHANGED <<shortcuts, config, config_handler, keyboards, destroyed, posVars, sceneVars, clientVars>>

\* CopyHashMap::set on the shortcut table: the entry is inserted or replaced.
ShortcutsSet(table, mods, sym) ==
    [x \in DOMAIN table \cup {<<mods, sym>>} |-> IF x = <<mods, sym>> THEN mods ELSE table[x]]

\* A remove that leaves the shortcut table as it is.
ShortcutsRemove_Nothing(table, mods, sym) == table

\* CopyHashMap::remove on the shortcut table: the entry is gone, if there was one.
ShortcutsRemove(table, mods, sym) ==
    [x \in DOMAIN table \ {<<mods, sym>>} |-> table[x]]

\* WlSeatGlobal::add_shortcut
AddShortcut(s, mods, sym) ==
    /\ ~hung
    /\ shortcuts' = [shortcuts EXCEPT ![s] = ShortcutsSet(@, mods, sym)]
    /\ Commit(World, [LastRec("add_shortcut", s, "none", "none", "none", TRUE)
                         EXCEPT !.args = <<mods, sym>>])
    /\ UNCHANGED <<pressed_keys, kb_state, config, config_handler, keyboards, destroyed, consumed, held, clientVars,
                   posVars, sceneVars>>

\* WlSeatGlobal::remove_shortcut
RemoveShortcut(s, mods, sym) ==
    /\ ~hung
    /\ shortcuts' = [shortcuts EXCEPT ![s] = ShortcutsRemove(@, mods, sym)]
    /\ Commit(World, [LastRec("remove_shortcut", s, "none", "none", "none", TRUE)
                         EXCEPT !.args = <<mods, sym>>,
                                !.prev = IF last.op = "add_shortcut"
                                         THEN [op |-> last.op, seat |-> last.seat,
                                               args |-> last.args,
                                               old_shortcuts |-> last.old_shortcuts]
                                         ELSE NoPrev])
    /\ UNCHANGED <<pressed_keys, kb_state, config, config_handler, keyboards, destroyed, consumed, held, clientVars,
                   posVars, sceneVars>>

\* ConfigProxy::new: the configuration is loaded and State::config is set.
\* The model follows one ConfigProxyHandler at a time.
LoadConfig ==
    /\ ~hung
    /\ ~config /\ config_handler = "none"
    /\ config' = TRUE
    /\ config_handler' = "live"
    /\ Commit(World, LastRec("load_config", "none", "none", "none", "none", TRUE))
    /\ UNCHANGED <<pressed_keys, kb_state, shortcuts, keyboards, destroyed, consumed, held, clientVars,
                   posVars, sceneVars>>

\* The requests the configuration sends: shortcuts of one seat are added and
\* removed.
ConfigSeat == "seat1"
ConfigRequests == [op : {"add_shortcut", "remove_shortcut"},
                   modsym : {<<{"Super"}, "t">>, <<{}, "Super_L">>}]

\* ConfigProxyHandler::handle_request
HandleRequest(table, req) ==
    IF req.op = "add_shortcut" THEN ShortcutsSet(table, req.modsym[1], req.modsym[2])
    ELSE ShortcutsRemove(table, req.modsym[1], req.modsym[2])

\* handle_msg that does not look at the flag.
HandlesMsg_Always(dropped) == TRUE

\* handle_msg, the test of the dropped flag.
HandlesMsg(dropped) == ~dropped

\* handle_msg, called for each of the messages reqs in turn while the flag
\* of the handler is dropped.
RECURSIVE HandleMsgs(_, _, _)
HandleMsgs(w, dropped, reqs) ==
    IF reqs = <<>> THEN w
    ELSE HandleMsgs(IF HandlesMsg(dropped)
                    THEN [Step(w, "handle_request", ConfigSeat, "none") EXCEPT
                             !.table = HandleRequest(@, Head(reqs))]
                    ELSE Step(w, "handle_msg_return", ConfigSeat, "none"),
                    dropped, Tail(reqs))

\* The world of a handler together with the shortcut table of the seat.
ConfigWorld == [t \in {"table"} \cup DOMAIN World |->
                   IF t = "table" THEN shortcuts[ConfigSeat] ELSE World[t]]

\* Drop for ConfigProxy: State::config is cleared and the proxy dropped. The
\* flag is set, then the unref of the configuration is called, which may
\* send the messages msgs before it returns and may give up its reference
\* to the handler or keep it.
ConfigDrop(msgs, release) ==
    /\ ~hung
    /\ config
    /\ config' = FALSE
    /\ LET w1 == Step(ConfigWorld, "dropped_set", ConfigSeat, "none")
           w2 == HandleMsgs(Step(w1, "unref", ConfigSeat, "none"), TRUE, msgs)
       IN /\ shortcuts' = [shortcuts EXCEPT ![ConfigSeat] = w2.table]
          /\ Commit(w2, [LastRec("drop_config", "none", "none", "none", "none", TRUE) EXCEPT
                            !.args = [table |-> shortcuts[ConfigSeat], msgs |-> msgs]])
    /\ config_handler' = IF release THEN "none" ELSE "dropped"
    /\ UNCHANGED <<pressed_keys, kb_state, keyboards, destroyed, consumed, held, clientVars,
                   posVars, sceneVars>>

DropConfig == ConfigDrop(<<>>, TRUE)

\* handle_msg: the configuration sends a message to a handler it holds.
HandleMsg(req) ==
    /\ ~hung
    /\ config_handler # "none"
    /\ LET w == HandleMsgs(ConfigWorld, config_handler = "dropped", <<req>>)
       IN /\ shortcuts' = [shortcuts EXCEPT ![ConfigSeat] = w.table]
          /\ Commit(w, [LastRec("handle_msg", "none", "none", "none", "none", TRUE) EXCEPT
                           !.args = [table |-> shortcuts[ConfigSeat], req |-> req,
                                     dropped |-> config_handler = "dropped"]])
    /\ UNCHANGED <<pressed_keys, kb_state, config, config_handler, keyboards, destroyed, consumed,
                   held, clientVars, posVars, sceneVars>>

\* unref: the configuration gives up its reference to a dropped handler.
ConfigUnref ==
    /\ ~hung
    /\ config_handler = "dropped"
    /\ config_handler' = "none"
    /\ Commit(World, LastRec("unref", "none", "none", "none", "none", TRUE))
    /\ UNCHANGED <<pressed_keys, kb_state, shortcuts, config, keyboards, destroyed, consumed, held,
                   clientVars, posVars, sceneVars>>

\* WlSeatGlobal::enter_toplevel: the pointer entered a toplevel that accepts
\* the keyboard focus.
EnterToplevel(s, tl) ==
    /\ ~hung
    /\ tl \notin destroyed /\ FocusSurface(tl) \notin destroyed
    /\ Commit(FocusToplevel(World, s, tl), LastRec("enter_toplevel", s, tl, "none", "none", TRUE))
    /\ UNCHANGED <<kbVars, destroyed, consumed, held, clientVars, posVars, sceneVars>>

\* WlSeatGlobal::grab
GrabKb(s, n) ==
    /\ ~hung
    /\ n \notin destroyed
    /\ Commit(Grab(World, s, n), LastRec("grab", s, n, "none", "none", TRUE))
    /\ UNCHANGED <<kbVars, destroyed, consumed, held, clientVars, posVars, sceneVars>>

\* A toplevel that goes away leaves the focus history of every seat.
ToplevelHistoryClear(tl) ==
    /\ ~hung
    /\ \E s \in Seats : SeqHas(history[s], tl)
    /\ Commit([World EXCEPT !.history = [s \in Seats |-> SeqRemove(@[s], tl)]],
              LastRec("history_clear", "none", tl, "none", "none", TRUE))
    /\ UNCHANGED <<kbVars, destroyed, consumed, held, clientVars, posVars, sceneVars>>

\* NodeSeatState::destroy_node
DestroyNode(n) ==
    /\ ~hung
    /\ n \notin destroyed
    /\ destroyed' = destroyed \cup {n}
    /\ Commit(DestroyNode2(World, n, TRUE),
              [LastRec("destroy_node", "none", n, "none", "none", TRUE) EXCEPT
                  !.old_foci = kb_foci[n], !.old_stack = pointer_stack])
    /\ UNCHANGED <<kbVars, consumed, held, clientVars, posVars, sceneVars>>

\* NodeSeatState::set_visible, called by a node whose visibility changed.
SetVisible(n, visible) ==
    /\ ~hung
    /\ n \notin destroyed
    /\ hidden' = IF visible THEN hidden \ {n} ELSE hidden \cup {n}
    /\ Commit(SetVisibleNode(World, n, visible),
              [LastRec("set_visible", "none", n, "none",
                       IF visible THEN "true" ELSE "false", TRUE) EXCEPT
                  !.old_foci = kb_foci[n], !.old_stack = pointer_stack])
    /\ UNCHANGED <<kbVars, destroyed, consumed, held, clientVars, posVars, locked, fullscreen,
                   outputVars>>

\* OutputNode::update_visible
UpdateVisible(o, root_visible) ==
    /\ ~hung
    /\ LET v == UpdateVisibleOutput(VisWorld(World), o, workspace[o], root_visible)
       IN /\ hidden' = v.hidden
          /\ title_visible' = v.title_visible
          /\ Commit(v.w, [LastRec("update_visible", "none", o, "none", "none", TRUE) EXCEPT
                             !.args = [root_visible |-> root_visible, hidden |-> hidden],
                             !.old_locked = locked])
    /\ UNCHANGED <<kbVars, destroyed, consumed, held, clientVars, posVars, locked, fullscreen,
                   workspace>>

\* OutputNode::show_workspace
ShowWorkspace(o, ws, root_visible) ==
    /\ ~hung
    /\ ws \notin destroyed
    /\ LET old == workspace[o]
           v == IF old = ws THEN VisWorld(World)
                ELSE ShowWorkspaceOutput(VisWorld(World), o, old, ws, root_visible)
       IN /\ workspace' = [workspace EXCEPT ![o] = ws]
          /\ hidden' = v.hidden
          /\ title_visible' = v.title_visible
          /\ destroyed' = IF old # ws /\ IsEmpty(old) THEN destroyed \cup {old} ELSE destroyed
          /\ Commit(v.w, [LastRec("show_workspace", "none", o, "none", "none", TRUE) EXCEPT
                             !.args = [old |-> old, ws |-> ws, returned |-> old # ws,
                                       root_visible |-> root_visible, hidden |-> hidden,
                                       keyboard_node |-> keyboard_node,
                                       title_visible |-> title_visible],
                             !.old_locked = locked])
    /\ UNCHANGED <<kbVars, consumed, held, clientVars, posVars, locked, fullscreen>>

\* motion_event, the clamp of one coordinate to [lo, hi) that puts it on the
\* last position inside instead of on hi.
ClampCoord_FarEdge(v, lo, hi) == IF v < lo THEN lo ELSE IF v >= hi THEN hi ELSE v

\* motion_event, the clamp of one coordinate to the half-open range [lo, hi).
ClampCoord(v, lo, hi) == IF v < lo THEN lo ELSE IF v >= hi THEN hi - 1 ELSE v

\* motion_event that never looks for another output.
WarpOutput_Never(x_int, y_int) == "none"

\* motion_event, the search: the first output whose rectangle holds the point.
WarpOutput(x_int, y_int) ==
    IF OutputsAt(x_int, y_int) = <<>> THEN "none" ELSE Head(OutputsAt(x_int, y_int))

\* motion_event that leaves a target outside of all outputs where it is.
MotionTarget_NoClamp(s, dx, dy) ==
    LET x == pos[s][1] + dx
        y == pos[s][2] + dy
        warp == WarpOutput(RoundDown(x), RoundDown(y))
    IN [pos |-> <<x, y>>,
        output |-> IF RectContains(GlobalPos(output[s]), RoundDown(x), RoundDown(y)) \/ warp = "none"
                   THEN output[s] ELSE warp]

\* motion_event, the new position and output of the seat.
MotionTarget(s, dx, dy) ==
    LET x == pos[s][1] + dx
        y == pos[s][2] + dy
        p == GlobalPos(output[s])
        x_int == RoundDown(x)
        y_int == RoundDown(y)
        warp == WarpOutput(x_int, y_int)
    IN IF RectContains(p, x_int, y_int) THEN [pos |-> <<x, y>>, output |-> output[s]]
       ELSE IF warp # "none" THEN [pos |-> <<x, y>>, output |-> warp]
       ELSE [pos |-> <<ApplyFract(x, ClampCoord(x_int, p.x1, p.x2)),
                       ApplyFract(y, ClampCoord(y_int, p.y1, p.y2))>>,
             output |-> output[s]]

\* WlSeatGlobal::motion_event with set_new_position and handle_new_position.
MotionEvent(s, dx, dy) ==
    /\ ~hung
    /\ LET t == MotionTarget(s, dx, dy)
       IN /\ pos' = [pos EXCEPT ![s] = t.pos]
          /\ output' = [output EXCEPT ![s] = t.output]
          /\ Commit(HandleNewPosition(World, s, t.pos),
                    [LastRec("motion_event", s, "none", "none", "none", TRUE) EXCEPT
                        !.old_pos = pos[s], !.old_output = output[s], !.delta = <<dx, dy>>])
    /\ UNCHANGED <<kbVars, destroyed, consumed, held, clientVars, sceneVars>>

\* state.outputs: the connectors that have an output.
Connectors == {"conA", "conB", "conX"}
ConnectorOutput(connector) ==
    IF connector = "conA" THEN "A" ELSE IF connector = "conB" THEN "B" ELSE "none"

\* connector_position_event that takes the position as a global one.
ConnectorTarget_NoOffset(connector, x, y) ==
    [pos |-> <<x, y>>, output |-> ConnectorOutput(connector)]

\* connector_position_event, the new position and output of the seat: the
\* position on the connector's output moved by the place of the output.
ConnectorTarget(connector, x, y) ==
    LET p == GlobalPos(ConnectorOutput(connector))
    IN [pos |-> <<x + FixedFromInt(p.x1), y + FixedFromInt(p.y1)>>,
        output |-> ConnectorOutput(connector)]

\* WlSeatGlobal::connector_position_event with set_new_position and
\* handle_new_position; an event of a connector without output returns.
ConnectorPositionEvent(s, connector, x, y) ==
    /\ ~hung
    /\ LET t == ConnectorTarget(connector, x, y)
           rec == [LastRec("connector_position_event", s, "none", "none", "none",
                           ConnectorOutput(connector) # "none") EXCEPT
                      !.old_pos = pos[s], !.old_output = output[s], !.old_stack = pointer_stack,
                      !.args = [connector |-> connector, x |-> x, y |-> y]]
       IN IF ConnectorOutput(connector) = "none"
          THEN /\ UNCHANGED posVars
               /\ Commit(World, rec)
          ELSE /\ pos' = [pos EXCEPT ![s] = t.pos]
               /\ output' = [output EXCEPT ![s] = t.output]
               /\ Commit(HandleNewPosition(World, s, t.pos), rec)
    /\ UNCHANGED <<kbVars, destroyed, consumed, held, clientVars, sceneVars>>

\* PointerOwner::button, reached from WlSeatGlobal::event: a press under the
\* default owner starts a grab on the node under the pointer, the release
\* under a grab ends it, the release under a drag drops and ends the drag.
ButtonEvent(s, bstate) ==
    /\ ~hung
    /\ LET own == pointer_owner[s]
           n == Last(pointer_stack[s])
           press == NodeButton([AddPointerGrab(World, s, n) EXCEPT
                                   !.pointer_owner[s] = [kind |-> "grab", node |-> n]],
                               s, n, PRESSED)
           release == TriggerTreeChanged(
                         [RemovePointerGrab(NodeButton(World, s, own.node, RELEASED), s, own.node)
                             EXCEPT !.pointer_owner[s] = DefaultOwner])
           drop == TriggerTreeChanged(
                      [RemoveDndTarget(Step(World, "dnd_drop", s, own.node), s, own.node)
                          EXCEPT !.pointer_owner[s] = DefaultOwner])
       IN Commit(CASE own.kind = "default" /\ bstate = PRESSED -> press
                   [] own.kind = "grab" /\ bstate = RELEASED -> release
                   [] own.kind = "dnd" /\ bstate = RELEASED -> drop
                   [] OTHER -> World,
                 LastRec("button", s, n, "none", bstate, TRUE))
    /\ UNCHANGED <<kbVars, destroyed, consumed, held, clientVars, posVars, sceneVars>>

\* PointerOwner::start_drag: the grab becomes a drag whose target is the node
\* under the pointer.
StartDrag(s) ==
    /\ ~hung
    /\ pointer_owner[s].kind = "grab"
    /\ LET n == pointer_owner[s].node
           w1 == [RemovePointerGrab(World, s, n) EXCEPT
                     !.pointer_owner[s] = [kind |-> "dnd", node |-> Root]]
       IN Commit(HandleNewPosition(w1, s, pos[s]),
                 LastRec("start_drag", s, n, "none", "none", TRUE))
    /\ UNCHANGED <<kbVars, destroyed, consumed, held, clientVars, posVars, sceneVars>>

\* OutputNode::node_find_tree_at, called with the vector that holds the root
\* and the output: the result and the vector are kept for the caller.
NodeFindTreeAt(o, x, y, usecase) ==
    /\ ~hung
    /\ LET base == <<FoundNode(Root, x + GlobalPos(o).x1, y + GlobalPos(o).y1), FoundNode(o, x, y)>>
           r == OutputFindTreeAt(o, x, y, base, usecase)
       IN Commit(World, [LastRec("node_find_tree_at", "none", o, "none", "none", TRUE) EXCEPT
                            !.args = [x |-> x, y |-> y, usecase |-> usecase, base |-> base,
                                      res |-> r.res, tree |-> r.tree]])
    /\ UNCHANGED <<kbVars, destroyed, consumed, held, clientVars, posVars, sceneVars>>

\* The task that State::tree_changed wakes: WlSeatGlobal::tree_changed of
\* every seat.
RECURSIVE TreeChangedSeats(_, _)
TreeChangedSeats(w, ss) ==
    IF ss = {} THEN w
    ELSE LET s == CHOOSE x \in ss : \A y \in ss : x = y \/ x = "seat1"
         IN TreeChangedSeats(HandleNewPosition(w, s, pos[s]), ss \ {s})

TreeChanged ==
    /\ ~hung
    /\ tree_changed
    /\ Commit(TreeChangedSeats([World EXCEPT !.tree_changed = FALSE], Seats),
              LastRec("tree_changed", "none", "none", "none", "none", TRUE))
    /\ UNCHANGED <<kbVars, destroyed, consumed, held, clientVars, posVars, sceneVars>>

\* The dispatch of a request to a jay_compositor object: the client is alive,
\* the event loop runs and the id names such an object.
JayLive(c, id) ==
    /\ ~hung /\ ~ring_stopped /\ ~killed[c]
    /\ id \in DOMAIN objects[c] /\ objects[c][id] = JAY_COMPOSITOR

JayRec(op, c, id, cw) ==
    [LastRec(op, "none", "none", "none", "none", TRUE) EXCEPT
        !.client = c, !.obj = id, !.ok = ~cw.err,
        !.old_symmetric_delete = symmetric_delete[c], !.old_locked = locked]

\* The end of a request handler: its events are sent; an Err is a fatal
\* protocol error, the client gets wl_display.error and is torn down.
CommitClient(cw, c) ==
    /\ objects' = IF cw.err THEN [cw.objects EXCEPT ![c] = <<>>] ELSE cw.objects
    /\ killed' = [killed EXCEPT ![c] = cw.err]
    /\ events' = IF cw.err THEN Append(cw.events, ClientEvent("error", c, 1, "none"))
                 ELSE cw.events

\* JayCompositorGlobal::bind_
JayBind(c, id) ==
    /\ ~hung /\ ~ring_stopped /\ ~killed[c]
    /\ LET cw == AddClientObj(ClientWorld, c, id, JAY_COMPOSITOR)
       IN /\ CommitClient(cw, c)
          /\ Commit(World, JayRec("bind", c, id, cw))
    /\ UNCHANGED <<kbVars, destroyed, consumed, held, posVars, sceneVars,
                   pointers, taskVars, selection, primary_selection, screencopies, symmetric_delete, ring_stopped, log_level, opted_in>>

\* A request to an id that names no object: no handler runs, the client is
\* ended with a protocol error.
DispatchUnknown(c, id) ==
    /\ ~hung /\ ~ring_stopped /\ ~killed[c]
    /\ id \notin DOMAIN objects[c]
    /\ LET cw == [ClientWorld EXCEPT !.err = TRUE]
       IN /\ CommitClient(cw, c)
          /\ Commit(World, JayRec("dispatch_unknown", c, id, cw))
    /\ UNCHANGED <<kbVars, destroyed, consumed, held, posVars, sceneVars,
                   pointers, taskVars, selection, primary_selection, screencopies, symmetric_delete, ring_stopped, log_level, opted_in>>

\* JayCompositor::destroy
Destroy(c, id, wellformed) ==
    /\ JayLive(c, id)
    /\ LET cw == JayDestroy(ClientWorld, c, id, wellformed)
       IN /\ CommitClient(cw, c)
          /\ Commit(World, JayRec("destroy", c, id, cw))
    /\ UNCHANGED <<kbVars, destroyed, consumed, held, posVars, sceneVars,
                   pointers, taskVars, selection, primary_selection, screencopies, symmetric_delete, ring_stopped, log_level, opted_in>>

\* JayCompositor::get_log_file
GetLogFile(c, id, new_id, wellformed) ==
    /\ JayLive(c, id)
    /\ LET cw == JayGetLogFile(ClientWorld, c, id, new_id, wellformed)
       IN /\ CommitClient(cw, c)
          /\ Commit(World, JayRec("get_log_file", c, id, cw))
    /\ UNCHANGED <<kbVars, destroyed, consumed, held, posVars, sceneVars,
                   pointers, taskVars, selection, primary_selection, screencopies, symmetric_delete, ring_stopped, log_level, opted_in>>

\* JayCompositor::quit
Quit(c, id, wellformed) ==
    /\ JayLive(c, id)
    /\ LET cw == Parse(ClientWorld, wellformed)
       IN /\ CommitClient(cw, c)
          /\ ring_stopped' = ~cw.err
          /\ Commit(World, JayRec("quit", c, id, cw))
    /\ UNCHANGED <<kbVars, destroyed, consumed, held, posVars, sceneVars,
                   pointers, taskVars, selection, primary_selection, screencopies, symmetric_delete, log_level, opted_in>>

\* JayCompositor::set_log_level
SetLogLevel(c, id, level, wellformed) ==
    /\ JayLive(c, id)
    /\ LET cw == JaySetLogLevel(ClientWorld, level, wellformed)
       IN /\ CommitClient(cw, c)
          /\ log_level' = IF cw.err THEN log_level ELSE level
          /\ Commit(World, JayRec("set_log_level", c, id, cw))
    /\ UNCHANGED <<kbVars, destroyed, consumed, held, posVars, sceneVars,
                   pointers, taskVars, selection, primary_selection, screencopies, symmetric_delete, ring_stopped, opted_in>>

\* JayCompositor::take_screenshot
TakeScreenshot(c, id, new_id, shot, wellformed) ==
    /\ JayLive(c, id)
    /\ LET cw == JayTakeScreenshot(ClientWorld, c, id, new_id, shot, wellformed)
       IN /\ CommitClient(cw, c)
          /\ Commit(World, JayRec("take_screenshot", c, id, cw))
    /\ UNCHANGED <<kbVars, destroyed, consumed, held, posVars, sceneVars,
                   pointers, taskVars, selection, primary_selection, screencopies, symmetric_delete, ring_stopped, log_level, opted_in>>

\* JayCompositor::get_idle
GetIdle(c, id, new_id, wellformed) ==
    /\ JayLive(c, id)
    /\ LET cw == JayGetIdle(ClientWorld, c, id, new_id, wellformed)
       IN /\ CommitClient(cw, c)
          /\ Commit(World, JayRec("get_idle", c, id, cw))
    /\ UNCHANGED <<kbVars, destroyed, consumed, held, posVars, sceneVars,
                   pointers, taskVars, selection, primary_selection, screencopies, symmetric_delete, ring_stopped, log_level, opted_in>>

\* JayCompositor::get_client_id
GetClientId(c, id, wellformed) ==
    /\ JayLive(c, id)
    /\ LET cw == JayGetClientId(ClientWorld, c, id, wellformed)
       IN /\ CommitClient(cw, c)
          /\ Commit(World, JayRec("get_client_id", c, id, cw))
    /\ UNCHANGED <<kbVars, destroyed, consumed, held, posVars, sceneVars,
                   pointers, taskVars, selection, primary_selection, screencopies, symmetric_delete, ring_stopped, log_level, opted_in>>

\* JayCompositor::enable_symmetric_delete
EnableSymmetricDelete(c, id, wellformed) ==
    /\ JayLive(c, id)
    /\ LET cw == Parse(ClientWorld, wellformed)
       IN /\ CommitClient(cw, c)
          /\ symmetric_delete' = [symmetric_delete EXCEPT ![c] = IF cw.err THEN @ ELSE TRUE]
          /\ Commit(World, JayRec("enable_symmetric_delete", c, id, cw))
    /\ opted_in' = opted_in \cup {c}
    /\ UNCHANGED <<kbVars, destroyed, consumed, held, posVars, sceneVars,
                   pointers, taskVars, selection, primary_selection, screencopies, ring_stopped, log_level>>

\* JayCompositor::unlock
Unlock(c, id, wellformed) ==
    /\ JayLive(c, id)
    /\ LET cw == Parse(ClientWorld, wellformed)
           unlocks == ~cw.err /\ locked
       IN /\ CommitClient(cw, c)
          /\ locked' = IF cw.err THEN locked ELSE FALSE
          /\ destroyed' = IF unlocks
                          THEN destroyed \cup ({LockSurface(o) : o \in Outputs} \ {"none"})
                          ELSE destroyed
          /\ symmetric_delete' = [symmetric_delete EXCEPT ![c] = IF cw.err THEN @ ELSE TRUE]
          /\ Commit(IF unlocks THEN UnlockScene(World) ELSE World,
                    [JayRec("unlock", c, id, cw) EXCEPT
                        !.args = [destroyed |-> destroyed, tree_changed |-> tree_changed]])
    /\ UNCHANGED <<kbVars, consumed, held, posVars, fullscreen, hidden, outputVars,
                   pointers, taskVars, selection, primary_selection, screencopies, ring_stopped, log_level, opted_in>>

\* One of the pointer callbacks of the seat, called by the surface the pointer
\* enters, leaves or moves over.
PointerSurface(s, callback, surface) ==
    /\ ~hung
    /\ surface \notin destroyed
    /\ events' = CASE callback = "motion_surface" -> MotionSurface(surface)
                    [] callback = "enter_surface" -> EnterSurface(surface)
                    [] OTHER -> LeaveSurface(surface)
    /\ Commit(World, [LastRec(callback, s, surface, "none", "none", TRUE) EXCEPT
                         !.client = SurfaceClient(surface)])
    /\ UNCHANGED <<kbVars, destroyed, consumed, held, posVars, sceneVars, symmetric_delete,
                   objects, killed, ring_stopped, log_level, opted_in, pointers, taskVars,
                   screencopies, selection, primary_selection>>

\* WlSeatGlobal::scroll_surface, called by a surface for a pending scroll.
ScrollSurface(s, surface, event) ==
    /\ ~hung
    /\ surface \notin destroyed
    /\ events' = ScrollSurfaceEvents(surface, event)
    /\ Commit(World, [LastRec("scroll_surface", s, surface, "none", "none", TRUE) EXCEPT
                         !.args = event, !.client = SurfaceClient(surface)])
    /\ UNCHANGED <<kbVars, destroyed, consumed, held, posVars, sceneVars,
                   symmetric_delete, objects, killed, ring_stopped, log_level, opted_in, pointers, taskVars, selection, primary_selection, screencopies>>

\* ZwlrScreencopyFrameV1, copy: the frame waits on the output for the next
\* rendered frame.
AddScreencopy(o, capture) ==
    /\ ~hung
    /\ Len(screencopies[o]) < MaxCaptures
    /\ \A i \in 1..Len(screencopies[o]) : screencopies[o][i].id # capture.id
    /\ screencopies' = [screencopies EXCEPT ![o] = Append(@, capture)]
    /\ events' = <<>>
    /\ Commit(World, LastRec("add_screencopy", "none", o, "none", "none", TRUE))
    /\ UNCHANGED <<kbVars, destroyed, consumed, held, posVars, sceneVars,
                   symmetric_delete, objects, killed, ring_stopped, log_level, opted_in, pointers, taskVars, selection, primary_selection>>

\* OutputNode::perform_wlr_screencopies
PerformWlrScreencopies(o, copy_ok) ==
    /\ ~hung
    /\ DOMAIN copy_ok = 1..Len(screencopies[o])
    /\ screencopies' = [screencopies EXCEPT ![o] = <<>>]
    /\ events' = DrainCaptures(screencopies[o], copy_ok, 1)
    /\ Commit(IF screencopies[o] = <<>> THEN World
              ELSE Step(World, "screencast_changed", "none", o),
              [LastRec("perform_wlr_screencopies", "none", o, "none", "none", TRUE) EXCEPT
                  !.args = <<screencopies[o], copy_ok>>])
    /\ UNCHANGED <<kbVars, destroyed, consumed, held, posVars, sceneVars,
                   symmetric_delete, objects, killed, ring_stopped, log_level, opted_in, pointers, taskVars, selection, primary_selection>>

\* ------------------------------------------------------------------ render data

\* The calls of schedule_update_render_data that are followed between two
\* updates of one output.
MaxSchedules == 3

\* The state that the render-data operations leave alone.
notRenderVars ==
    <<kbVars, focusVars, pointerVars, posVars, sceneVars, sent, invoked, steps, announced,
      entered, consumed, held, symmetric_delete, objects, killed, ring_stopped, log_level,
      events, opted_in, pointers, screencopies, selection, primary_selection, sighandVars, data_devices>>

RenderRec(op, o, updates) ==
    [LastRec(op, "none", o, "none", "none", TRUE) EXCEPT
        !.args = [calls |-> schedule_calls[o], scheduled |-> update_render_data_scheduled[o],
                  pending |-> pending_output_render_data, updates |-> updates]]

\* schedule_update_render_data that sets the flag and queues nothing.
SchedulePushes_Never(o) == FALSE

\* schedule_update_render_data that queues the output on every call.
SchedulePushes_Always(o) == TRUE

\* OutputNode::schedule_update_render_data, the push: replace(true) returned
\* false.
SchedulePushes(o) == ~update_render_data_scheduled[o]

\* OutputNode::schedule_update_render_data
ScheduleUpdateRenderData(o) ==
    /\ schedule_calls[o] < MaxSchedules
    /\ update_render_data_scheduled' = [update_render_data_scheduled EXCEPT ![o] = TRUE]
    /\ pending_output_render_data' =
          IF SchedulePushes(o) THEN Append(pending_output_render_data, o)
          ELSE pending_output_render_data
    /\ schedule_calls' = [schedule_calls EXCEPT ![o] = @ + 1]
    /\ last' = RenderRec("schedule_update_render_data", o, 0)
    /\ UNCHANGED <<global_destroyed, notRenderVars>>

\* output_render_data, one turn of its loop: the first output of the queue is
\* taken; a destroyed one is skipped, another one is updated if its flag is
\* set, and update_render_data clears the flag.
OutputRenderData ==
    /\ pending_output_render_data # <<>>
    /\ LET container == Head(pending_output_render_data)
           updates == container \notin global_destroyed
                        /\ update_render_data_scheduled[container]
       IN /\ pending_output_render_data' = Tail(pending_output_render_data)
          /\ update_render_data_scheduled' =
                IF updates THEN [update_render_data_scheduled EXCEPT ![container] = FALSE]
                ELSE update_render_data_scheduled
          /\ schedule_calls' =
                IF updates THEN [schedule_calls EXCEPT ![container] = 0] ELSE schedule_calls
          /\ last' = RenderRec("output_render_data", container, IF updates THEN 1 ELSE 0)
    /\ UNCHANGED <<global_destroyed, notRenderVars>>

\* The global of an output is removed: its destroyed flag is set.
OutputGlobalDestroyed(o) ==
    /\ o \notin global_destroyed
    /\ global_destroyed' = global_destroyed \cup {o}
    /\ last' = RenderRec("global_destroyed", o, 0)
    /\ UNCHANGED <<pending_output_render_data, update_render_data_scheduled, schedule_calls,
                   notRenderVars>>

\* ------------------------------------------------------------------ drag and drop

\* The most wl_data_device objects of one client, and the versions of
\* wl_data_device_manager they come from.
MaxDevices == 2
DeviceVersions == {1, 3}

\* WlDataOfferId::NONE
NoOffer == 0

\* wl_data_device_manager.get_data_device: a client gets a data device of a
\* seat.
GetDataDevice(c, ver) ==
    /\ ~hung
    /\ Len(data_devices[c]) < MaxDevices
    /\ data_devices' = [data_devices EXCEPT ![c] = Append(@, ver)]
    /\ events' = <<>>
    /\ Commit(World, [LastRec("get_data_device", "none", "none", "none", "none", TRUE)
                         EXCEPT !.client = c])
    /\ UNCHANGED <<kbVars, destroyed, consumed, held, posVars, sceneVars, symmetric_delete,
                   objects, killed, ring_stopped, log_level, opted_in, pointers, renderVars,
                   sighandVars, screencopies, selection, primary_selection>>

\* WlSeatGlobal::for_each_data_device: the data devices of a client whose
\* manager has at least version ver, in the order of the map.
ForEachDataDevice(ver, c) ==
    SelectSeq([k \in 1..Len(data_devices[c]) |-> k], LAMBDA k : data_devices[c][k] >= ver)

\* One event to each of the devices ds of a client.
DeviceEvents(ev, c, ds, arg) == [i \in 1..Len(ds) |-> ClientEvent(ev, c, ds[i], arg)]

\* ipc::offer_source_to and WlDataSource::for_each_data_offer: the source is
\* offered to every data device of the client, offer k to device k, and
\* every offer announces the drag to its device and sends its actions.
OfferEnterEvents(c) ==
    LET ds == ForEachDataDevice(0, c)
    IN [i \in 1..(2 * Len(ds)) |->
           IF i % 2 = 1 THEN ClientEvent("dnd_enter", c, ds[(i + 1) \div 2], (i + 1) \div 2)
           ELSE ClientEvent("source_actions", c, ds[i \div 2], i \div 2)]

\* dnd_surface_leave, dnd_surface_drop and dnd_surface_motion that tell the
\* target of every drag.
DndToDevices_Always(surface, dnd) == TRUE

\* dnd_surface_leave, dnd_surface_drop, dnd_surface_motion: the test before
\* for_each_data_device.
DndToDevices(surface, dnd) == dnd.src \/ SurfaceClient(surface) = dnd.client

\* WlDataSource::on_leave and on_drop, which speak to the source.
DndSourceEvents(ev, dnd) ==
    IF dnd.src THEN <<ClientEvent(ev, dnd.client, 0, "source")>> ELSE <<>>

\* WlSeatGlobal::dnd_surface_leave
DndSurfaceLeave(surface, dnd) ==
    (IF DndToDevices(surface, dnd)
     THEN DeviceEvents("dnd_leave", SurfaceClient(surface),
                       ForEachDataDevice(0, SurfaceClient(surface)), NoOffer)
     ELSE <<>>) \o DndSourceEvents("on_leave", dnd)

\* WlSeatGlobal::dnd_surface_drop
DndSurfaceDrop(surface, dnd) ==
    (IF DndToDevices(surface, dnd)
     THEN DeviceEvents("dnd_drop", SurfaceClient(surface),
                       ForEachDataDevice(0, SurfaceClient(surface)), NoOffer)
     ELSE <<>>) \o DndSourceEvents("on_drop", dnd)

\* WlSeatGlobal::dnd_surface_enter
DndSurfaceEnter(surface, dnd) ==
    IF dnd.src THEN OfferEnterEvents(SurfaceClient(surface))
    ELSE IF SurfaceClient(surface) = dnd.client
    THEN DeviceEvents("dnd_enter", dnd.client, ForEachDataDevice(0, dnd.client), NoOffer)
    ELSE <<>>

\* WlSeatGlobal::dnd_surface_motion
DndSurfaceMotion(surface, dnd) ==
    IF DndToDevices(surface, dnd)
    THEN DeviceEvents("dnd_motion", SurfaceClient(surface),
                      ForEachDataDevice(0, SurfaceClient(surface)), NoOffer)
    ELSE <<>>

DndCallbacks == {"dnd_surface_enter", "dnd_surface_motion", "dnd_surface_leave", "dnd_surface_drop"}

\* One of the dnd callbacks of the seat, called by the surface that is the
\* target of the drag dnd.
DndSurface(s, callback, surface, dnd) ==
    /\ ~hung
    /\ surface \notin destroyed
    /\ events' = CASE callback = "dnd_surface_enter" -> DndSurfaceEnter(surface, dnd)
                    [] callback = "dnd_surface_motion" -> DndSurfaceMotion(surface, dnd)
                    [] callback = "dnd_surface_leave" -> DndSurfaceLeave(surface, dnd)
                    [] OTHER -> DndSurfaceDrop(surface, dnd)
    /\ Commit(World, [LastRec(callback, s, surface, "none", "none", TRUE) EXCEPT
                         !.args = dnd, !.client = SurfaceClient(surface)])
    /\ UNCHANGED <<kbVars, destroyed, consumed, held, posVars, sceneVars, symmetric_delete,
                   objects, killed, ring_stopped, log_level, opted_in, pointers, taskVars,
                   screencopies, selection, primary_selection>>

\* ------------------------------------------------------------------ signals

SIGINT == 2
SIGTERM == 15
Signals == {SIGINT, SIGTERM}
EpollEvents == {"EPOLLIN", "EPOLLERR", "EPOLLHUP"}
ReadErrnos == {"EINTR", "EIO"}

\* The signals that wait in the signal fd at one time.
MaxSignals == 3

\* Sighand::dispatch that stops the event loop for every signal it reads.
StopsOn_AnySignal(signo) == TRUE

\* Sighand::dispatch, the test of ssi_signo.
StopsOn(signo) == signo = SIGINT

\* Sighand::dispatch, the loop: it reads the fd until a read fails. A read of
\* the empty fd fails with EAGAIN; read number fail_at fails with errno, if
\* the loop gets that far. r is [fd, reads, stops, result].
RECURSIVE ReadSignals(_, _, _)
ReadSignals(r, fail_at, errno) ==
    IF r.reads + 1 = fail_at THEN [r EXCEPT !.reads = @ + 1, !.result = "ReadFailed", !.errno = errno]
    ELSE IF r.fd = <<>> THEN [r EXCEPT !.reads = @ + 1, !.result = "Ok", !.errno = "EAGAIN"]
    ELSE ReadSignals([r EXCEPT !.fd = Tail(@), !.reads = @ + 1,
                               !.stops = IF StopsOn(Head(r.fd)) THEN @ + 1 ELSE @],
                     fail_at, errno)

\* Sighand::dispatch
SighandDispatch(mask, fail_at, errno) ==
    LET r0 == [fd |-> signal_fd, reads |-> 0, stops |-> 0, result |-> "ErrorEvent",
               errno |-> "none"]
        r == IF mask \cap {"EPOLLERR", "EPOLLHUP"} # {} THEN r0
             ELSE ReadSignals(r0, fail_at, errno)
    IN /\ signal_fd' = r.fd
       /\ el_stopped' = (el_stopped \/ r.stops > 0)
       /\ last' = [LastRec("sighand_dispatch", "none", "none", "none", "none", r.result = "Ok")
                      EXCEPT !.args = [mask |-> mask, old_fd |-> signal_fd, reads |-> r.reads,
                                       stops |-> r.stops, result |-> r.result, errno |-> r.errno,
                                       fail_at |-> fail_at]]
       /\ UNCHANGED <<kbVars, focusVars, pointerVars, posVars, sceneVars, sent, invoked, steps,
                      announced, entered, consumed, held, symmetric_delete, objects, killed,
                      ring_stopped, log_level, events, opted_in, pointers, screencopies, selection,
                      primary_selection, renderVars, data_devices>>

\* A signal of the set of the signal fd is raised.
SignalRaised(signo) ==
    /\ Len(signal_fd) < MaxSignals
    /\ signal_fd' = Append(signal_fd, signo)
    /\ last' = [LastRec("signal_raised", "none", "none", "none", "none", TRUE)
                   EXCEPT !.args = [signo |-> signo]]
    /\ UNCHANGED <<kbVars, focusVars, pointerVars, posVars, sceneVars, sent, invoked, steps,
                   announced, entered, consumed, held, symmetric_delete, objects, killed,
                   ring_stopped, log_level, events, opted_in, pointers, screencopies, selection,
                   primary_selection, renderVars, el_stopped, data_devices>>

\* ------------------------------------------------------------------ specifications

\* The seats and the scene when output A shows the workspace ws.
InitSeatsOn(ws) ==
    /\ pressed_keys = [s \in Seats |-> {}]
    /\ kb_state = [s \in Seats |-> InitKbState]
    /\ shortcuts = [s \in Seats |-> [x \in {} |-> {}]]
    /\ config = FALSE
    /\ config_handler = "none"
    /\ keyboard_node = [s \in Seats |-> Root]
    /\ kb_owner = [s \in Seats |-> "default"]
    /\ history = [s \in Seats |-> <<>>]
    /\ kb_foci = [n \in Nodes |-> <<>>]
    /\ pointer_foci = [n \in Nodes |-> <<>>]
    /\ grabs = [n \in Nodes |-> <<>>]
    /\ dnd_targets = [n \in Nodes |-> <<>>]
    /\ pos = [s \in Seats |-> <<0, 0>>]
    /\ output = [s \in Seats |-> "A"]
    /\ pointer_stack = [s \in Seats |-> <<Root>>]
    /\ pointer_owner = [s \in Seats |-> DefaultOwner]
    /\ tree_changed = FALSE
    /\ workspace = [o \in Outputs |-> IF o = "A" THEN ws ELSE "WB"]
    /\ title_visible = [o \in Outputs |-> TRUE]
    /\ hidden = Inactive(workspace)
    /\ destroyed = {}
    /\ hung = FALSE
    /\ sent = <<>>
    /\ invoked = <<>>
    /\ steps = <<>>
    /\ last = NoLast
    /\ announced = [o \in KbObjects |-> "none"]
    /\ entered = [o \in KbObjects |-> "none"]
    /\ consumed = [s \in Seats |-> {}]
    /\ held = [s \in Seats |-> {}]
    /\ InitClients

InitSeats == InitSeatsOn("WA")

\* The state after start-up: an unlocked session without a fullscreen window.
Init ==
    /\ InitSeats
    /\ keyboards \in KeyboardConfigs
    /\ pointers = [c \in Clients |-> <<>>]
    /\ selection = [s \in Seats |-> "none"]
    /\ primary_selection = [s \in Seats |-> "none"]
    /\ locked = FALSE
    /\ fullscreen = [ws \in Workspaces |-> "none"]

\* The keyboard of one seat: keys, shortcuts, the configuration and the
\* changes of the keyboard focus.
KeySeat == "seat1"
KeyHidden == "S1"

NextKey ==
    \/ \E key \in Keys, kstate \in KeyStates : KeyEvent(KeySeat, key, kstate)
    \/ \E a \in ShortcutArgs : AddShortcut(KeySeat, a[1], a[2])
    \/ \E a \in ShortcutArgs : RemoveShortcut(KeySeat, a[1], a[2])
    \/ LoadConfig
    \/ DropConfig
    \/ \E tl \in ShownToplevels : EnterToplevel(KeySeat, tl)
    \/ SetVisible(KeyHidden, FALSE)

SpecKey == Init /\ [][NextKey]_vars

\* The focus of every seat: focus changes, grabs, hidden and destroyed nodes.
FocusKeys == {"kSuper"}
FocusGrabbed == "S2"
FocusHidden == "S2"
FocusDestroyed == "S1"

InitFocus ==
    /\ InitSeats
    /\ keyboards = [c \in Clients |-> IF c = "c1" THEN 1 ELSE MaxKb]
    /\ pointers = [c \in Clients |-> <<>>]
    /\ selection = [s \in Seats |-> "none"]
    /\ primary_selection = [s \in Seats |-> "none"]
    /\ locked = FALSE
    /\ fullscreen = [ws \in Workspaces |-> "none"]

NextFocus ==
    \/ \E key \in FocusKeys, kstate \in KeyStates : KeyEvent(KeySeat, key, kstate)
    \/ \E s \in Seats, tl \in ShownToplevels : EnterToplevel(s, tl)
    \/ GrabKb(KeySeat, FocusGrabbed)
    \/ \E tl \in ShownToplevels : ToplevelHistoryClear(tl)
    \/ DestroyNode(FocusDestroyed)
    \/ SetVisible(FocusHidden, FALSE)

SpecFocus == InitFocus /\ [][NextFocus]_vars

\* The pointer of one seat: relative motion over the two outputs, in steps of
\* half a pixel and of several pixels.
MotionSeat == "seat1"
Deltas == {-1280, -128, 384, 1024}

NextMotion ==
    \E dx \in Deltas, dy \in Deltas : MotionEvent(MotionSeat, dx, dy)

SpecMotion == Init /\ [][NextMotion]_vars

\* The pointer focus: motion, buttons, drags, and nodes that are destroyed or
\* hidden under the pointer, in a session that is locked or not and has a
\* fullscreen window or not.
InitPointer ==
    /\ InitSeats
    /\ keyboards = [c \in Clients |-> 1]
    /\ pointers = [c \in Clients |-> <<>>]
    /\ selection = [s \in Seats |-> "none"]
    /\ primary_selection = [s \in Seats |-> "none"]
    /\ locked \in BOOLEAN
    /\ fullscreen \in {[ws \in Workspaces |-> "none"],
                       [ws \in Workspaces |-> IF ws = "WA" THEN "T1" ELSE "none"]}

PointerDeltasX == {-256, 768}
PointerDeltasY == {-256, 256}
PointerDestroyed == {"F", "S1"}
PointerHidden == "T2"

NextPointer ==
    \/ \E dx \in PointerDeltasX, dy \in PointerDeltasY : MotionEvent(MotionSeat, dx, dy)
    \/ \E n \in PointerDestroyed : DestroyNode(n)
    \/ \E visible \in BOOLEAN : SetVisible(PointerHidden, visible)
    \/ TreeChanged

SpecPointer == InitPointer /\ [][NextPointer]_vars

\* The pointer owner: buttons, grabs and drags over a fixed scene, and the
\* nodes under the grab or the drag going away.
InitGrab ==
    /\ InitSeats
    /\ keyboards = [c \in Clients |-> 1]
    /\ pointers = [c \in Clients |-> <<>>]
    /\ selection = [s \in Seats |-> "none"]
    /\ primary_selection = [s \in Seats |-> "none"]
    /\ locked = FALSE
    /\ fullscreen = [ws \in Workspaces |-> "none"]

GrabDestroyed == "S1"

NextGrab ==
    \/ \E dx \in PointerDeltasX : MotionEvent(MotionSeat, dx, FixedOne)
    \/ \E bstate \in KeyStates : ButtonEvent(MotionSeat, bstate)
    \/ StartDrag(MotionSeat)
    \/ DestroyNode(GrabDestroyed)
    \/ TreeChanged

SpecGrab == InitGrab /\ [][NextGrab]_vars

\* The hit test of an output while the nodes that lie on top of each other at
\* one point of output B are hidden one after the other, with and without a
\* fullscreen window on the workspace of output A.
HitHideable == {"P", "L", "LO", "LT", "F2", "T2", "LM", "LG"}
HitPoints == {2, 3} \X (0..3)
HitUsecases == {"None"}

InitHit ==
    /\ InitSeats
    /\ keyboards = [c \in Clients |-> 1]
    /\ pointers = [c \in Clients |-> <<>>]
    /\ selection = [s \in Seats |-> "none"]
    /\ primary_selection = [s \in Seats |-> "none"]
    /\ locked = FALSE
    /\ fullscreen \in {[ws \in Workspaces |-> "none"],
                       [ws \in Workspaces |-> IF ws = "WA" THEN "T3" ELSE "none"]}

NextHit ==
    \/ \E n \in HitHideable : SetVisible(n, FALSE)
    \/ \E o \in Outputs, pt \in HitPoints, usecase \in HitUsecases :
          NodeFindTreeAt(o, pt[1], pt[2], usecase)

SpecHit == InitHit /\ [][NextHit]_vars

\* The anchors of two seats on one surface: both pointers move down from the
\* bar over the window and press, which gives them a grab and the keyboard
\* focus, one of them drags, and the surface or its toplevel is destroyed.
DragSeat == "seat2"
AnchorDestroyed == {"S1", "T1"}

NextAnchor ==
    \/ \E s \in Seats : MotionEvent(s, 0, FixedOne)
    \/ \E s \in Seats : ButtonEvent(s, PRESSED)
    \/ StartDrag(DragSeat)
    \/ \E n \in AnchorDestroyed : DestroyNode(n)
    \/ TreeChanged

SpecAnchor == InitGrab /\ [][NextAnchor]_vars

\* The jay_compositor objects of two clients, in a session that is locked or
\* not, with a pointer that rests on whatever lies at the origin.
InitJay ==
    /\ InitSeats
    /\ keyboards = [c \in Clients |-> 1]
    /\ pointers = [c \in Clients |-> <<>>]
    /\ selection = [s \in Seats |-> "none"]
    /\ primary_selection = [s \in Seats |-> "none"]
    /\ locked \in BOOLEAN
    /\ fullscreen = [ws \in Workspaces |-> "none"]

JayLevels == {"trace", UnknownLevel}

NextJay ==
    \/ \E c \in Clients : JayBind(c, 1)
    \/ \E c \in Clients, id \in ObjIds : DispatchUnknown(c, id)
    \/ \E c \in Clients, wellformed \in BOOLEAN : Destroy(c, 1, wellformed)
    \/ \E id \in ObjIds : GetLogFile("c1", 1, id, TRUE)
    \/ \E wellformed \in BOOLEAN : Quit("c1", 1, wellformed)
    \/ \E level \in JayLevels : SetLogLevel("c1", 1, level, TRUE)
    \/ \E id \in ObjIds, shot \in BOOLEAN : TakeScreenshot("c1", 1, id, shot, TRUE)
    \/ \E id \in ObjIds : GetIdle("c1", 1, id, TRUE)
    \/ \E c \in Clients : GetClientId(c, 1, TRUE)
    \/ \E c \in Clients, wellformed \in BOOLEAN : EnableSymmetricDelete(c, 1, wellformed)
    \/ \E c \in Clients, wellformed \in BOOLEAN : Unlock(c, 1, wellformed)
    \/ MotionEvent(MotionSeat, 0, 0)
    \/ TreeChanged

SpecJay == InitJay /\ [][NextJay]_vars

\* Scrolling over a surface of a client whose pointers come from bindings of
\* wl_seat of old and new versions.
SeatVersions == {1, 4, 5, 6}
MaxPointers == 2
ScrollSeat == "seat1"
ScrollSurfaces == {"S1"}
PointerConfigs ==
    UNION {[1..n -> SeatVersions] : n \in 0..MaxPointers}
AxisValues == {None, Some(15)} \X {None, Some(15)}
PendingScrolls ==
    [source : {None, Some(WHEEL), Some(WHEEL_TILT)}, discrete : AxisValues, axis : AxisValues,
     stop : BOOLEAN \X BOOLEAN]

InitScroll ==
    /\ InitSeats
    /\ keyboards = [c \in Clients |-> 1]
    /\ pointers \in {[c \in Clients |-> IF c = "c1" THEN q ELSE <<>>] : q \in PointerConfigs}
    /\ selection = [s \in Seats |-> "none"]
    /\ primary_selection = [s \in Seats |-> "none"]
    /\ locked = FALSE
    /\ fullscreen = [ws \in Workspaces |-> "none"]

NextScroll ==
    \E surface \in ScrollSurfaces, event \in PendingScrolls :
        ScrollSurface(ScrollSeat, surface, event)

SpecScroll == InitScroll /\ [][NextScroll]_vars

\* Absolute positions on the connectors of the two outputs and on one that has
\* no output, beside relative motion.
ConnectorCoords == {0, FixedOne + 128}

NextConnector ==
    \/ \E connector \in Connectors, x \in ConnectorCoords, y \in ConnectorCoords :
          ConnectorPositionEvent(MotionSeat, connector, x, y)
    \/ \E dy \in {0, FixedOne} : MotionEvent(MotionSeat, FixedOne, dy)

SpecConnector == Init /\ [][NextConnector]_vars

\* Render data of the two outputs is scheduled and updated, and the global of
\* an output goes away, in any order.
NextRender ==
    \/ \E o \in Outputs : ScheduleUpdateRenderData(o)
    \/ OutputRenderData
    \/ \E o \in Outputs : OutputGlobalDestroyed(o)

SpecRender == Init /\ [][NextRender]_vars

\* The task output_render_data waits on the queue of pending outputs and is
\* run by the engine whenever the queue holds an output: whenever a turn of
\* its loop stays possible it is taken.
SpecRenderFair == SpecRender /\ WF_vars(OutputRenderData)

\* Signals are raised and the event loop dispatches the signal fd, with any
\* event mask and with reads that may fail.
NextSighand ==
    \/ \E signo \in Signals : SignalRaised(signo)
    \/ \E mask \in (SUBSET EpollEvents) \ {{}}, fail_at \in 0..(MaxSignals + 1),
          errno \in ReadErrnos :
          SighandDispatch(mask, fail_at, errno)

SpecSighand == Init /\ [][NextSighand]_vars

\* Drags of either client, with and without a data source, over surfaces of
\* both clients, which have data devices or not.
DndSeat == "seat1"
DndSurfaces == {"S1", "S2"}
Dnds == [client : Clients, src : BOOLEAN]

NextDnd ==
    \/ \E c \in Clients, ver \in DeviceVersions : GetDataDevice(c, ver)
    \/ \E callback \in DndCallbacks, surface \in DndSurfaces, dnd \in Dnds :
          DndSurface(DndSeat, callback, surface, dnd)

SpecDnd == Init /\ [][NextDnd]_vars

\* The events of one seat for surfaces of two clients that both have pointers
\* and keyboards, from seat bindings of several versions: scrolls, pointer
\* callbacks, buttons, keys and focus changes.
ConfinePointers ==
    {[c \in Clients |-> IF c = "c1" THEN <<4, 5>> ELSE <<6>>],
     [c \in Clients |-> IF c = "c1" THEN <<6>> ELSE <<1, 5>>]}
ConfineSurfaces == {"S1", "S2"}
ConfineScrolls ==
    {e \in PendingScrolls :
        /\ e.source # None
        /\ e.discrete = <<Some(15), None>> /\ e.axis = <<Some(15), None>>
        /\ e.stop = <<TRUE, FALSE>>}

InitConfine ==
    /\ InitSeats
    /\ keyboards = [c \in Clients |-> IF c = "c1" THEN MaxKb ELSE 1]
    /\ pointers \in ConfinePointers
    /\ selection = [s \in Seats |-> "none"]
    /\ primary_selection = [s \in Seats |-> "none"]
    /\ locked = FALSE
    /\ fullscreen = [ws \in Workspaces |-> "none"]

NextConfine ==
    \/ \E surface \in ConfineSurfaces, event \in ConfineScrolls :
          ScrollSurface(KeySeat, surface, event)
    \/ \E callback \in PointerCallbacks, surface \in ConfineSurfaces :
          PointerSurface(KeySeat, callback, surface)
    \/ \E kstate \in KeyStates : KeyEvent(KeySeat, "kSuper", kstate)
    \/ EnterToplevel(KeySeat, "T2")
    \/ MotionEvent(KeySeat, 0, FixedOne)
    \/ \E bstate \in KeyStates : ButtonEvent(KeySeat, bstate)

SpecConfine == InitConfine /\ [][NextConfine]_vars

\* The configuration and its handler: the proxy is made and dropped, and the
\* configuration sends messages before, while and after the proxy is dropped.
MaxMsgs == 2
DropMsgs == UNION {[1..n -> ConfigRequests] : n \in 0..MaxMsgs}

NextConfig ==
    \/ LoadConfig
    \/ \E msgs \in DropMsgs, release \in BOOLEAN : ConfigDrop(msgs, release)
    \/ \E req \in ConfigRequests : HandleMsg(req)
    \/ ConfigUnref

SpecConfig == Init /\ [][NextConfig]_vars

\* A surface that is hidden and shown again while seats focus it, grab it
\* and drag over it.
VisibleNode == "S1"

NextVisible ==
    \/ \E dx \in PointerDeltasX : MotionEvent(MotionSeat, dx, FixedOne)
    \/ \E bstate \in KeyStates : ButtonEvent(MotionSeat, bstate)
    \/ StartDrag(MotionSeat)
    \/ \E tl \in ShownToplevels : EnterToplevel(MotionSeat, tl)
    \/ \E visible \in BOOLEAN : SetVisible(VisibleNode, visible)

SpecVisible == InitGrab /\ [][NextVisible]_vars

\* The visibility of the outputs is brought up to date, for a root that is
\* visible or not, in a session that is locked or not, with or without
\* fullscreen windows, while a seat focuses the windows and moves its pointer.
InitUpdate ==
    /\ InitSeats
    /\ keyboards = [c \in Clients |-> 1]
    /\ pointers = [c \in Clients |-> <<>>]
    /\ selection = [s \in Seats |-> "none"]
    /\ primary_selection = [s \in Seats |-> "none"]
    /\ locked \in BOOLEAN
    /\ fullscreen \in {[ws \in Workspaces |-> "none"],
                       [ws \in Workspaces |-> WorkspaceContainer(ws)]}

NextUpdate ==
    \/ \E o \in Outputs, root_visible \in BOOLEAN : UpdateVisible(o, root_visible)
    \/ \E tl \in {x \in ShownToplevels : NodeVisible(x)} : EnterToplevel(MotionSeat, tl)
    \/ \E dx \in PointerDeltasX : MotionEvent(MotionSeat, dx, FixedOne)

SpecUpdate == InitUpdate /\ [][NextUpdate]_vars

\* Output A changes between its workspaces, one of them empty, while the
\* seats focus the windows that are shown.
ShowOutput == "A"
ShowTargets == {"WA", "WC"}

InitShow ==
    /\ \E ws \in {"WA", "WE"} : InitSeatsOn(ws)
    /\ keyboards = [c \in Clients |-> 1]
    /\ pointers = [c \in Clients |-> <<>>]
    /\ selection = [s \in Seats |-> "none"]
    /\ primary_selection = [s \in Seats |-> "none"]
    /\ locked = FALSE
    /\ fullscreen = [ws \in Workspaces |-> "none"]

NextShow ==
    \/ \E ws \in ShowTargets, root_visible \in BOOLEAN :
          ShowWorkspace(ShowOutput, ws, root_visible)
    \/ \E s \in Seats, o \in Outputs :
          /\ WorkspaceContainer(workspace[o]) # "none"
          /\ NodeVisible(WorkspaceContainer(workspace[o]))
          /\ EnterToplevel(s, WorkspaceContainer(workspace[o]))

SpecShow == InitShow /\ [][NextShow]_vars

\* The buttons of one seat over the window of output A, tiled or below a
\* fullscreen window that takes no keyboard input, for a client with pointers
\* of several versions, while the keyboard focus moves to another window.
ButtonAway == "T2"
ButtonVersions == {POINTER_FRAME_SINCE_VERSION - 1, POINTER_FRAME_SINCE_VERSION}
ButtonConfigs == UNION {[1..n -> ButtonVersions] : n \in 0..MaxPointers}

InitButton ==
    /\ InitSeats
    /\ keyboards = [c \in Clients |-> 1]
    /\ pointers \in {[c \in Clients |-> IF c = "c1" THEN q ELSE <<>>] : q \in ButtonConfigs}
    /\ selection = [s \in Seats |-> "none"]
    /\ primary_selection = [s \in Seats |-> "none"]
    /\ locked = FALSE
    /\ fullscreen \in {[ws \in Workspaces |-> "none"],
                       [ws \in Workspaces |-> IF ws = "WA" THEN "T3" ELSE "none"]}

NextButton ==
    \/ MotionEvent(MotionSeat, 0, FixedOne)
    \/ \E bstate \in KeyStates : ButtonEvent(MotionSeat, bstate)
    \/ EnterToplevel(MotionSeat, ButtonAway)
    \/ TreeChanged

SpecButton == InitButton /\ [][NextButton]_vars

\* Captures of an output: frames are queued and the next rendered frame is
\* copied into them, with copies that succeed or fail.
CopyOutputs == {"A"}

NextCopy ==
    \/ \E o \in CopyOutputs, capture \in Captures : AddScreencopy(o, capture)
    \/ \E o \in CopyOutputs, copy_ok \in UNION {[1..n -> BOOLEAN] : n \in 0..MaxCaptures} :
          PerformWlrScreencopies(o, copy_ok)

SpecCopy == Init /\ [][NextCopy]_vars

\* The selections of one seat while its keyboard focus moves between the
\* surfaces of two clients, one of which has two windows.
SelectionDestroyed == "S3"
SelectionGrabbed == "S2"
SelectionSources ==
    {[s \in Seats |-> IF s = KeySeat THEN src ELSE "none"] : src \in {"none", "source"}}

InitSelection ==
    /\ InitSeats
    /\ keyboards = [c \in Clients |-> 1]
    /\ pointers = [c \in Clients |-> <<>>]
    /\ selection \in SelectionSources
    /\ primary_selection \in SelectionSources
    /\ locked = FALSE
    /\ fullscreen = [ws \in Workspaces |-> "none"]

NextSelection ==
    \/ \E tl \in Toplevels \ Inactive(workspace) : EnterToplevel(KeySeat, tl)
    \/ GrabKb(KeySeat, SelectionGrabbed)
    \/ DestroyNode(SelectionDestroyed)
    \/ \E tl \in Toplevels \ Inactive(workspace) : ToplevelHistoryClear(tl)

SpecSelection == InitSelection /\ [][NextSelection]_vars

\* ------------------------------------------------------------------ claims: key events

SeqRange(q) == {q[i] : i \in 1..Len(q)}

KeyEventIdx == {i \in 1..Len(sent) : sent[i].ev = "key"}
ModsEventIdx == {i \in 1..Len(sent) : sent[i].ev = "modifiers"}

\* The last handler was a key press that changed pressed_keys.
AcceptedPress == last.op = "key_event" /\ last.accepted /\ last.kstate = PRESSED
AcceptedRelease == last.op = "key_event" /\ last.accepted /\ last.kstate = RELEASED

\* The keysyms of the pressed key that the shortcut table of its seat holds
\* under the effective modifiers the seat had before the press.
MatchedSyms ==
    {sym \in SeqRange(UnmodifiedKeysyms(last.key)) :
        <<ModsOf(last.old_kb).mods_effective, sym>> \in DOMAIN shortcuts[last.seat]}

\* C1 as stated: a key press that changes pressed_keys and matches the shortcut
\* table produces exactly one invoke_shortcut call and no key event.
C1_ExactlyOneInvocation ==
    (AcceptedPress /\ MatchedSyms # {}) => Len(invoked) = 1 /\ KeyEventIdx = {}

\* C1 as amended: a matching key press produces one invoke_shortcut call per
\* matching keysym of the key when a configuration is loaded and none when
\* there is none, each for the pressed seat and a matching table entry, and
\* in both cases no key event to any client.
C1_OneInvocationPerMatch ==
    (AcceptedPress /\ MatchedSyms # {}) =>
        /\ KeyEventIdx = {}
        /\ Len(invoked) = IF config THEN Cardinality(MatchedSyms) ELSE 0
        /\ \A i \in 1..Len(invoked) :
              /\ invoked[i].seat = last.seat
              /\ invoked[i].sym \in MatchedSyms
              /\ invoked[i].mods = ModsOf(last.old_kb).mods_effective
        /\ \A i, j \in 1..Len(invoked) : invoked[i].sym = invoked[j].sym => i = j

C1_Witness ==
    /\ AcceptedPress /\ Cardinality(MatchedSyms) = 1 /\ config
    /\ Len(invoked) = 1
    /\ IsSurface(keyboard_node[last.seat])
    /\ keyboards[SurfaceClient(keyboard_node[last.seat])] > 0

\* C2: a key press that changes pressed_keys and matches no shortcut invokes
\* nothing and goes to the keyboard node: every wl_keyboard of the focused
\* surface's client gets exactly one key event for the key, nobody else any.
C2_UnmatchedPressDelivered ==
    (AcceptedPress /\ MatchedSyms = {}) =>
        /\ invoked = <<>>
        /\ LET node == keyboard_node[last.seat]
           IN \A o \in KbObjects :
                 Cardinality({i \in KeyEventIdx : <<sent[i].seat, sent[i].client, sent[i].kb>> = o})
                   = IF /\ IsSurface(node) /\ o[1] = last.seat
                        /\ o[2] = SurfaceClient(node) /\ o[3] <= keyboards[o[2]]
                     THEN 1 ELSE 0
        /\ \A i \in KeyEventIdx :
              /\ sent[i].key = last.key /\ sent[i].kstate = PRESSED
              /\ sent[i].surface = keyboard_node[last.seat]
              /\ sent[i].serial > 0

C2_Witness ==
    /\ AcceptedPress /\ MatchedSyms = {}
    /\ shortcuts[last.seat] # <<>>
    /\ IsSurface(keyboard_node[last.seat])
    /\ Cardinality(KeyEventIdx) = 2

\* C3 as stated: the release of a key whose press a shortcut consumed is
\* suppressed too: it sends no key event to any client.
C3_ReleaseOfConsumedPressSuppressed ==
    (AcceptedRelease /\ last.press_consumed) => KeyEventIdx = {}

\* C4: (a) between handlers every wl_keyboard that the next key event of a
\* seat would go to has been told the seat's current modifiers; (b) within one
\* key_event a key event comes before the modifiers event to the same object,
\* and a change of the modifiers is sent to every wl_keyboard of the focused
\* surface's client, also when a shortcut consumed the key.
ModsAnnouncedToFocus ==
    \A s \in Seats, c \in Clients, k \in 1..MaxKb :
        (IsSurface(keyboard_node[s]) /\ SurfaceClient(keyboard_node[s]) = c /\ k <= keyboards[c])
            => announced[<<s, c, k>>] = ModsOf(kb_state[s])

KeyBeforeMods ==
    (last.op = "key_event" /\ last.accepted) =>
        /\ \A i \in KeyEventIdx, j \in ModsEventIdx :
              <<sent[i].seat, sent[i].client, sent[i].kb>> = <<sent[j].seat, sent[j].client, sent[j].kb>>
                  => i < j
        /\ LET s == last.seat
               node == keyboard_node[s]
               changed == ModsOf(kb_state[s]) # ModsOf(last.old_kb)
           IN \A o \in KbObjects :
                 Cardinality({j \in ModsEventIdx : <<sent[j].seat, sent[j].client, sent[j].kb>> = o})
                   = IF /\ changed /\ IsSurface(node) /\ o[1] = s
                        /\ o[2] = SurfaceClient(node) /\ o[3] <= keyboards[o[2]]
                     THEN 1 ELSE 0
        /\ \A j \in ModsEventIdx : sent[j].mods = ModsOf(kb_state[last.seat])

C4_ModifiersBeforeNextKey == ModsAnnouncedToFocus /\ KeyBeforeMods

C4_Witness ==
    /\ AcceptedPress /\ MatchedSyms # {} /\ KeyEventIdx = {}
    /\ ModsOf(kb_state[last.seat]) # ModsOf(last.old_kb)
    /\ Cardinality(ModsEventIdx) = 2

\* ------------------------------------------------------------------ claims: shortcut table

\* The last handler was remove_shortcut(m, k) and the handler before it was
\* add_shortcut(m, k) on the same seat.
AddThenRemove ==
    /\ last.op = "remove_shortcut" /\ last.prev.op = "add_shortcut"
    /\ last.prev.seat = last.seat /\ last.prev.args = last.args

\* C11 as stated: add_shortcut(m, k) followed by remove_shortcut(m, k) leaves
\* the shortcut table as it was before the add, also when (m, k) was
\* registered before the add.
C11_AddRemoveRestores ==
    AddThenRemove => shortcuts[last.seat] = last.prev.old_shortcuts

\* C11 as amended: add_shortcut(m, k) followed by remove_shortcut(m, k) leaves
\* the shortcut table as it was before the add without its entry for (m, k):
\* the table is restored exactly when (m, k) was not registered before.
C11_AddRemoveRestoresUnregistered ==
    AddThenRemove =>
        LET before == last.prev.old_shortcuts
        IN /\ shortcuts[last.seat] = [x \in DOMAIN before \ {last.args} |-> before[x]]
           /\ last.args \notin DOMAIN before => shortcuts[last.seat] = before
           /\ last.args \in DOMAIN before => shortcuts[last.seat] # before

C11_Witness ==
    /\ AddThenRemove
    /\ last.args \notin DOMAIN last.prev.old_shortcuts
    /\ last.prev.old_shortcuts # <<>>
    /\ shortcuts[last.seat] = last.prev.old_shortcuts

\* ------------------------------------------------------------------ claims: pointer motion

MotionDone == last.op = "motion_event"

\* The point the last motion aimed at: the old position plus the delta, and
\* its integer part.
TargetRaw == <<last.old_pos[1] + last.delta[1], last.old_pos[2] + last.delta[2]>>
TargetInt == <<RoundDown(TargetRaw[1]), RoundDown(TargetRaw[2])>>
TargetInNoOutput ==
    \A o \in Outputs : ~RectContains(GlobalPos(o), TargetInt[1], TargetInt[2])
TargetInOldOutput == RectContains(GlobalPos(last.old_output), TargetInt[1], TargetInt[2])

\* C5: a motion whose integer target lies in no output leaves the seat on its
\* output and clamps the position to it: a coordinate below x1 (y1) becomes x1
\* (y1), one at or beyond x2 (y2) becomes x2 - 1 (y2 - 1), never x2 (y2); one
\* inside is kept, and the fraction of the target is kept.
C5_ClampedToCurrentOutput ==
    (MotionDone /\ TargetInNoOutput) =>
        LET s == last.seat
            p == GlobalPos(last.old_output)
            x_int == RoundDown(pos[s][1])
            y_int == RoundDown(pos[s][2])
        IN /\ output[s] = last.old_output
           /\ x_int = IF TargetInt[1] < p.x1 THEN p.x1
                      ELSE IF TargetInt[1] >= p.x2 THEN p.x2 - 1 ELSE TargetInt[1]
           /\ y_int = IF TargetInt[2] < p.y1 THEN p.y1
                      ELSE IF TargetInt[2] >= p.y2 THEN p.y2 - 1 ELSE TargetInt[2]
           /\ x_int # p.x2 /\ y_int # p.y2
           /\ pos[s][1] % FixedOne = TargetRaw[1] % FixedOne
           /\ pos[s][2] % FixedOne = TargetRaw[2] % FixedOne

C5_Witness ==
    /\ MotionDone /\ TargetInNoOutput
    /\ last.old_output = "B"
    /\ TargetInt[1] >= GlobalPos("B").x2 /\ TargetInt[2] >= GlobalPos("B").y2
    /\ RoundDown(pos[last.seat][1]) = GlobalPos("B").x2 - 1
    /\ RoundDown(pos[last.seat][2]) = GlobalPos("B").y2 - 1
    /\ pos[last.seat][1] % FixedOne # 0

\* C6: a motion whose integer target leaves the seat's output and lies in
\* another output puts the seat on an output that holds the target, at exactly
\* the old position plus the delta.
C6_WarpToContainingOutput ==
    (MotionDone /\ ~TargetInOldOutput /\ ~TargetInNoOutput) =>
        /\ RectContains(GlobalPos(output[last.seat]), TargetInt[1], TargetInt[2])
        /\ output[last.seat] # last.old_output
        /\ pos[last.seat] = TargetRaw

C6_Witness ==
    /\ MotionDone /\ ~TargetInOldOutput /\ ~TargetInNoOutput
    /\ last.old_output = "A" /\ output[last.seat] = "B"
    /\ last.delta[1] > 0
    /\ pos[last.seat] = TargetRaw
    /\ pos[last.seat][2] % FixedOne # 0

\* ------------------------------------------------------------------ claims: session lock

\* The nodes node_find_tree_at of an output pushes for a point of the output.
OutputFinds(o, x, y, usecase) ==
    SeqRange(FoundNodes(OutputFindTreeAt(o, x, y, <<>>, usecase).tree))

OutputPoints(o) ==
    (0..(GlobalPos(o).x2 - GlobalPos(o).x1 - 1)) \X (0..(GlobalPos(o).y2 - GlobalPos(o).y1 - 1))

\* C12: while the session is locked, node_find_tree_at of an output pushes,
\* for every point and every usecase, nothing but the lock surface of the
\* output and nodes below that surface: no stacked node, layer surface,
\* workspace or fullscreen node; and the pointer stack a motion leaves holds
\* nothing but the root, the output and the lock surface.
C12_LockedFindsOnlyLockSurface ==
    locked =>
        /\ \A o \in Outputs : \A pt \in OutputPoints(o), usecase \in Usecases :
              \A n \in OutputFinds(o, pt[1], pt[2], usecase) :
                  /\ LockSurface(o) # "none"
                  /\ n = LockSurface(o) \/ IsAncestor(LockSurface(o), n)
                  /\ usecase # "SelectToplevel"
        /\ MotionDone =>
              \A n \in SeqRange(pointer_stack[last.seat]) :
                  n = Root \/ n = output[last.seat] \/ n = LockSurface(output[last.seat])

\* A motion in the locked session ended on the lock surface of output A, at a
\* point where the unlocked output has a layer surface and a toplevel.
C12_Witness ==
    /\ locked /\ MotionDone
    /\ pointer_stack[last.seat] = <<Root, "A", "LS">>
    /\ LET x == RoundDown(pos[last.seat][1])
           y == RoundDown(pos[last.seat][2])
       IN /\ RectContains(LayerOutputExtents("LB"), x, y)
          /\ RectContains(SurfaceExtents("S1"), x, y)
          /\ "LB" \notin hidden /\ "S1" \notin destroyed

\* ------------------------------------------------------------------ claims: jay_compositor

JayRequests ==
    {"destroy", "get_log_file", "quit", "set_log_level", "take_screenshot", "get_idle",
     "get_client_id", "enable_symmetric_delete", "unlock"}

\* The last handler was a destroy request that parsed, sent to a
\* jay_compositor object of a client with symmetric delete enabled.
SymmetricDestroy == last.op = "destroy" /\ last.ok /\ last.old_symmetric_delete

\* C13: a destroy request on a jay_compositor object of a client with
\* symmetric delete enabled removes the object from the client's object table
\* and sends the confirmation of the deletion to that client in the same
\* handler, and nothing else; afterwards no request is dispatched to the id.
C13_SymmetricDestroyConfirmed ==
    SymmetricDestroy =>
        /\ last.obj \notin DOMAIN objects[last.client]
        /\ events = <<ClientEvent("delete_id", last.client, last.obj, "none")>>
        /\ ~killed[last.client]
        /\ ~JayLive(last.client, last.obj)

C13_Witness ==
    /\ SymmetricDestroy
    /\ last.client \in opted_in
    /\ Len(events) = 1 /\ events[1].ev = "delete_id"
    /\ objects[last.client] = <<>>

\* C18 as stated: a client's symmetric_delete flag is set only if that client
\* has sent enable_symmetric_delete, and no other request of jay_compositor
\* changes the flag.
C18_SymmetricDeleteOnlyByOptIn ==
    /\ \A c \in Clients : symmetric_delete[c] => c \in opted_in
    /\ (last.op \in JayRequests \ {"enable_symmetric_delete"}) =>
          symmetric_delete[last.client] = last.old_symmetric_delete

\* ------------------------------------------------------------------ claims: scroll events

ScrollDone == last.op = "scroll_surface"

\* The events of the last handler that went to the k-th pointer of a client.
EventsOfPointer(c, k) == {i \in 1..Len(events) : events[i].client = c /\ events[i].obj = k}

\* The version an axis_source event asks for: the one of the wheel tilt for
\* the sources from the wheel tilt on.
SourceSince(source) ==
    IF source >= WHEEL_TILT THEN WHEEL_TILT_SINCE_VERSION ELSE AXIS_SOURCE_SINCE_VERSION

\* C14: of the events scroll_surface sends for a pending scroll, a pointer
\* gets axis_source only if the version of its seat binding is at least the
\* since-version of the source, axis_discrete, axis_stop and frame only at or
\* above their since-versions; a pointer below all of them gets axis events
\* only; the events go to pointers of the surface's client and no error is
\* raised.
C14_ScrollRespectsVersions ==
    ScrollDone =>
        /\ \A i \in 1..Len(events) :
              LET e == events[i]
                  v == pointers[e.client][e.obj]
              IN /\ e.client = last.client /\ e.obj \in 1..Len(pointers[e.client])
                 /\ e.ev \in {"axis_source", "axis_discrete", "axis", "axis_stop", "frame"}
                 /\ e.ev = "axis_source" => v >= SourceSince(e.arg[1])
                 /\ e.ev = "axis_discrete" => v >= AXIS_DISCRETE_SINCE_VERSION
                 /\ e.ev = "axis_stop" => v >= AXIS_STOP_SINCE_VERSION
                 /\ e.ev = "frame" => v >= POINTER_FRAME_SINCE_VERSION
        /\ \A k \in 1..Len(pointers[last.client]) :
              LET v == pointers[last.client][k]
              IN (/\ v < AXIS_SOURCE_SINCE_VERSION /\ v < AXIS_DISCRETE_SINCE_VERSION
                  /\ v < AXIS_STOP_SINCE_VERSION /\ v < POINTER_FRAME_SINCE_VERSION)
                    => /\ \A i \in EventsOfPointer(last.client, k) : events[i].ev = "axis"
                       /\ last.args.axis[1] # None => EventsOfPointer(last.client, k) # {}
        /\ \A c \in Clients : ~killed[c]

\* A scroll with a wheel-tilt source, a discrete step, a value and a stop went
\* to a client with a pointer of an old and a pointer of a new version: the old
\* one got the axis event only, the new one more than that.
C14_Witness ==
    /\ ScrollDone
    /\ last.args.source = Some(WHEEL_TILT) /\ last.args.discrete[1] # None
    /\ last.args.axis[1] # None /\ last.args.stop[1]
    /\ \E k \in 1..Len(pointers[last.client]) :
          /\ pointers[last.client][k] < AXIS_SOURCE_SINCE_VERSION
          /\ Cardinality(EventsOfPointer(last.client, k)) = 1
    /\ \E k \in 1..Len(pointers[last.client]) :
          /\ pointers[last.client][k] >= WHEEL_TILT_SINCE_VERSION
          /\ {events[i].ev : i \in EventsOfPointer(last.client, k)}
               = {"axis_source", "axis_discrete", "axis", "axis_stop", "frame"}

\* ------------------------------------------------------------------ claims: screencopies

CopiesDone == last.op = "perform_wlr_screencopies"

\* The events of the last handler of one kind for one capture.
CaptureGot(capture, ev) ==
    Cardinality({i \in 1..Len(events) :
                    /\ events[i].ev = ev /\ events[i].obj = capture.id
                    /\ events[i].client = capture.client})

\* C15: after perform_wlr_screencopies the queue of the output is empty and
\* every capture that was in it has got exactly one of ready and failed; a
\* capture without buffer, with a destroyed buffer, with a dmabuf without
\* framebuffer or whose copy returned an error has got failed and not ready.
C15_CapturesAnsweredOnce ==
    CopiesDone =>
        LET queue == last.args[1]
            copy_ok == last.args[2]
        IN /\ screencopies[last.node] = <<>>
           /\ \A i \in 1..Len(queue) :
                 /\ CaptureGot(queue[i], "ready") + CaptureGot(queue[i], "failed") = 1
                 /\ (\/ queue[i].buffer \in {NO_BUFFER, DESTROYED_BUFFER, DMABUF_NO_FB}
                     \/ (queue[i].buffer \in {SHM, DMABUF} /\ ~copy_ok[i]))
                       => CaptureGot(queue[i], "failed") = 1 /\ CaptureGot(queue[i], "ready") = 0
           /\ \A i \in 1..Len(events) :
                 \E j \in 1..Len(queue) :
                    events[i].obj = queue[j].id /\ events[i].client = queue[j].client

\* Two captures were pending: the copy into the shm buffer of one failed, the
\* copy into the dmabuf of the other succeeded.
C15_Witness ==
    /\ CopiesDone
    /\ Len(last.args[1]) = 2
    /\ \E i, j \in 1..Len(last.args[1]) :
          /\ last.args[1][i].buffer = SHM /\ ~last.args[2][i]
          /\ CaptureGot(last.args[1][i], "failed") = 1
          /\ last.args[1][j].buffer = DMABUF /\ last.args[2][j]
          /\ CaptureGot(last.args[1][j], "ready") = 1

\* ------------------------------------------------------------------ claims: destroyed nodes

\* No seat refers to the node through focus, grab or dnd state.
NodeUnreferenced(n) ==
    /\ pointer_foci[n] = <<>> /\ kb_foci[n] = <<>>
    /\ grabs[n] = <<>> /\ dnd_targets[n] = <<>>
    /\ \A s \in Seats : ~SeqHas(pointer_stack[s], n) /\ keyboard_node[s] # n

IsDownwardPath(q) == \A i \in 1..(Len(q) - 1) : IsAncestor(q[i], q[i + 1])
IsPrefix(a, b) == Len(a) <= Len(b) /\ a = SubSeq(b, 1, Len(a))

C8_PointerStackIsDownwardPath ==
    /\ \A s \in Seats : IsDownwardPath(pointer_stack[s])
    /\ last.op \in {"destroy_node", "set_visible"} =>
          \A s \in Seats : IsPrefix(pointer_stack[s], last.old_stack[s])

\* ------------------------------------------------------------------ claims: keyboard focus

\* The surfaces some wl_keyboard of a seat has been sent enter for and no
\* leave since.
OutstandingEnters(s) ==
    {entered[o] : o \in {x \in KbObjects : x[1] = s}} \ {"none"}

\* C9 as stated: on every seat the enter for a newly focused surface comes
\* after the leave for the surface focused before, so that the wl_keyboard
\* objects of a seat never hold enters for two surfaces at once.
C9_EnterPrecededByLeave ==
    \A s \in Seats : Cardinality(OutstandingEnters(s)) <= 1

\* The seats whose keyboard focus was on the destroyed node and whose focus
\* history ends with a toplevel that focuses another surface.
RefocusedSeats ==
    {s \in SeqRange(last.old_foci) :
        history[s] # <<>> /\ FocusSurface(Last(history[s])) # last.node}

\* C10: when destroy_node of the node that holds a seat's keyboard focus
\* returns and the last entry of the seat's focus history is another toplevel
\* T2, the seat's keyboard node is T2's focus surface, and every wl_keyboard
\* of T2's client got exactly one enter for it with the seat's pressed keys
\* and a serial allocated in the handler and used for nothing else, followed
\* by modifiers with the seat's modifiers and a later serial.
C10_RefocusAfterDestroy ==
    (last.op = "destroy_node" /\ ~hung) =>
        \A s \in RefocusedSeats :
            LET sf == FocusSurface(Last(history[s]))
                c == SurfaceClient(sf)
                enters(k) == {i \in 1..Len(sent) :
                                 sent[i].ev = "enter" /\ sent[i].seat = s
                                 /\ sent[i].client = c /\ sent[i].kb = k}
            IN /\ keyboard_node[s] = sf
               /\ SeqHas(kb_foci[sf], s)
               /\ \A k \in 1..keyboards[c] :
                     /\ Cardinality(enters(k)) = 1
                     /\ \A i \in enters(k) :
                           /\ sent[i].surface = sf
                           /\ sent[i].keys = pressed_keys[s]
                           /\ sent[i].serial >= 1
                           /\ \A j \in 1..Len(sent) :
                                 (sent[j].client = c /\ sent[j].serial = sent[i].serial)
                                     => (sent[j].ev = "enter" /\ sent[j].seat = s)
                           /\ \E j \in (i + 1)..Len(sent) :
                                 /\ sent[j].ev = "modifiers" /\ sent[j].seat = s
                                 /\ sent[j].client = c /\ sent[j].kb = k
                                 /\ sent[j].surface = sf
                                 /\ sent[j].mods = ModsOf(kb_state[s])
                                 /\ sent[j].serial > sent[i].serial

C10_Witness ==
    /\ last.op = "destroy_node" /\ ~hung
    /\ Cardinality(RefocusedSeats) = 2
    /\ \A s \in RefocusedSeats : keyboard_node[s] = "S2"
    /\ pressed_keys[KeySeat] # {}
    /\ Cardinality({i \in 1..Len(sent) : sent[i].ev = "enter"}) = 2 * MaxKb

\* The events of the last handler that ask a wl_keyboard to enter a surface.
EnterIdx == {i \in 1..Len(sent) : sent[i].ev = "enter"}

SameKb(i, j) ==
    <<sent[i].seat, sent[i].client, sent[i].kb>> = <<sent[j].seat, sent[j].client, sent[j].kb>>

\* C16: giving the keyboard focus to a surface sends every wl_keyboard of the
\* surface's client first enter with the seat's pressed keys and then, as the
\* next event to that object, modifiers with the seat's modifiers; the serial
\* of the enter is allocated from the client in the handler and used for
\* nothing but this enter, the serial of the modifiers is the next one the
\* client allocates.
C16_EnterThenModifiers ==
    /\ \A i \in EnterIdx :
          /\ sent[i].keys = pressed_keys[sent[i].seat]
          /\ sent[i].client = SurfaceClient(sent[i].surface)
          /\ sent[i].serial >= 1
          /\ \A j \in 1..Len(sent) :
                (sent[j].client = sent[i].client /\ sent[j].serial = sent[i].serial)
                    => /\ sent[j].ev = "enter" /\ sent[j].seat = sent[i].seat
                       /\ sent[j].surface = sent[i].surface
          /\ \E j \in (i + 1)..Len(sent) :
                /\ SameKb(i, j)
                /\ sent[j].ev = "modifiers"
                /\ sent[j].mods = ModsOf(kb_state[sent[i].seat])
                /\ sent[j].serial = sent[i].serial + 1
                /\ \A k \in (i + 1)..(j - 1) : ~SameKb(i, k)
    /\ \A s \in Seats :
          IsSurface(keyboard_node[s]) =>
              \A k \in 1..keyboards[SurfaceClient(keyboard_node[s])] :
                  entered[<<s, SurfaceClient(keyboard_node[s]), k>>] = keyboard_node[s]

\* A seat with a held key that drives a modifier gave the focus to a surface
\* whose client has several wl_keyboard objects.
C16_Witness ==
    /\ last.op = "enter_toplevel"
    /\ pressed_keys[last.seat] # {}
    /\ ModsOf(kb_state[last.seat]).mods_depressed # {}
    /\ keyboard_node[last.seat] # last.old_node
    /\ IsSurface(last.old_node)
    /\ Cardinality(EnterIdx) = MaxKb
    /\ \A i \in EnterIdx : sent[i].keys = pressed_keys[last.seat]

\* The offers focus_surface owes for the focus changes of a handler, in their
\* order: for every change to a surface whose client is not the client of the
\* node the focus comes from, the selection and the primary selection of the
\* seat, each as its source or as a null selection.
RECURSIVE OffersFor(_)
OffersFor(moves) ==
    IF moves = <<>> THEN <<>>
    ELSE LET m == Head(moves)
             c == SurfaceClient(m.to)
         IN (IF IsSurface(m.to) /\ NodeClientId(m.from) # c
             THEN <<[seat |-> m.seat, client |-> c, kind |-> "selection",
                     source |-> selection[m.seat]],
                    [seat |-> m.seat, client |-> c, kind |-> "primary",
                     source |-> primary_selection[m.seat]]>>
             ELSE <<>>) \o OffersFor(Tail(moves))

\* C17: whenever the keyboard focus of a seat moves to a surface from a node of
\* another client or of no client, the selection and the primary selection of
\* the seat are offered to the client of the surface, as a null selection when
\* the seat has none; a move between surfaces of one client offers nothing.
C17_OfferOnClientChange == last.offered = OffersFor(last.moves)

\* The focus moved from a window of one client to a window of the other while
\* the seat had a selection but no primary selection.
C17_Witness ==
    /\ last.op = "enter_toplevel"
    /\ Len(last.moves) = 1
    /\ last.moves[1].from = "S3" /\ last.moves[1].to = "S2"
    /\ Len(last.offered) = 2
    /\ last.offered[1].source = "source" /\ last.offered[2].source = "none"
    /\ last.offered[1].client = "c2"

\* The focus moved between two windows of one client.
SameClientMove ==
    /\ Len(last.moves) = 1 /\ last.offered = <<>>
    /\ last.moves[1].from = "S1" /\ last.moves[1].to = "S3"
    /\ selection[last.seat] # "none"

\* ------------------------------------------------------------------ claims: key events, the order of the steps

\* The (modifiers, keysym) pairs of the last key under a keyboard state.
KeyPairs(st) ==
    {<<ModsOf(st).mods_effective, sym>> : sym \in SeqRange(UnmodifiedKeysyms(last.key))}

\* C19: the shortcut lookup of a key press uses the effective modifiers the
\* keyboard state had before the pressed key is applied to it, and the state
\* is updated after the lookup: a press is consumed and invokes shortcuts
\* exactly when the table holds a keysym of the key under the old modifiers,
\* whatever it holds under the new ones; a release never invokes a shortcut.
C19_LookupBeforeUpdate ==
    /\ AcceptedPress =>
          LET old == KeyPairs(last.old_kb) \cap DOMAIN shortcuts[last.seat]
          IN /\ kb_state[last.seat] = KbUpdate(last.old_kb, last.key, PRESSED)
             /\ (old = {}) = (last.key \notin consumed[last.seat])
             /\ {<<invoked[i].mods, invoked[i].sym>> : i \in 1..Len(invoked)}
                   = IF config THEN old ELSE {}
             /\ (old # {}) => KeyEventIdx = {}
             /\ (old = {} /\ IsSurface(last.old_node)
                   /\ keyboards[SurfaceClient(last.old_node)] > 0) => KeyEventIdx # {}
    /\ AcceptedRelease =>
          /\ invoked = <<>>
          /\ kb_state[last.seat] = KbUpdate(last.old_kb, last.key, RELEASED)

\* The press of a key that changes the modifiers was consumed by a shortcut
\* registered under the modifiers before the press, while the table holds
\* nothing for the key under the modifiers after it.
C19_Witness ==
    /\ AcceptedPress /\ config
    /\ ModsOf(kb_state[last.seat]).mods_effective # ModsOf(last.old_kb).mods_effective
    /\ KeyPairs(last.old_kb) \cap DOMAIN shortcuts[last.seat] # {}
    /\ KeyPairs(kb_state[last.seat]) \cap DOMAIN shortcuts[last.seat] = {}
    /\ Len(invoked) = 1

\* C20: a key event that does not change the membership of pressed_keys, the
\* press of a held key or the release of a key that is not held, is ignored:
\* it sends no key and no modifiers event, invokes no shortcut and leaves the
\* keyboard state and pressed_keys as they are; and pressed_keys always is
\* the set of the keys whose last accepted event was a press.
C20_RepeatIgnored ==
    /\ \A s \in Seats : pressed_keys[s] = held[s]
    /\ last.op = "key_event" =>
          /\ last.accepted = (IF last.kstate = PRESSED THEN last.key \notin last.old_pressed
                              ELSE last.key \in last.old_pressed)
          /\ ~last.accepted =>
                /\ sent = <<>> /\ invoked = <<>>
                /\ kb_state[last.seat] = last.old_kb
                /\ pressed_keys[last.seat] = last.old_pressed

\* The press of a held key that drives a modifier was dropped although a
\* shortcut was registered for it and a client had the focus.
C20_Witness ==
    /\ last.op = "key_event" /\ ~last.accepted /\ last.kstate = PRESSED
    /\ last.key \in pressed_keys[last.seat]
    /\ KeyModifier(last.key) # {}
    /\ shortcuts[last.seat] # <<>>
    /\ IsSurface(keyboard_node[last.seat])
    /\ keyboards[SurfaceClient(keyboard_node[last.seat])] > 0


\* ------------------------------------------------------------------ claims: the order of destroy_node

\* The part of destroy_node2 a call belongs to: 1 the grabs, 2 the dnd
\* targets, 3 the pointer foci, 4 the keyboard foci, 0 for any other call.
DestroyPhase(step) ==
    CASE step.op = "revert_to_default" -> 1
      [] step.op = "dnd_target_removed" -> 2
      [] step.op \in {"pointer_pop", "leave"} -> 3
      [] step.op = "release_kb_focus" -> 4
      [] OTHER -> 0

DestroyDone == last.op = "destroy_node" \/ (last.op = "set_visible" /\ last.kstate = "false")

\* C21: destroy_node handles the anchors of a node in the order grabs, dnd
\* targets, pointer foci, keyboard foci: every revert_to_default comes before
\* every dnd_target_removed, every dnd_target_removed before every pop of a
\* pointer stack and every leave, and these before every release of a
\* keyboard focus.
C21_DestroyOrder ==
    DestroyDone =>
        \A i \in 1..Len(steps) : \A j \in (i + 1)..Len(steps) :
            (DestroyPhase(steps[i]) # 0 /\ DestroyPhase(steps[j]) # 0)
                => DestroyPhase(steps[i]) <= DestroyPhase(steps[j])

\* A node was destroyed that held a grab, a dnd target, a pointer focus and
\* a keyboard focus at once.
C21_Witness ==
    /\ last.op = "destroy_node"
    /\ {DestroyPhase(steps[i]) : i \in 1..Len(steps)} \ {0} = 1..4


\* ------------------------------------------------------------------ claims: the pointer stack of a destroyed node

\* The place of the destroyed node on the stack a seat had before.
StackIdx(s) ==
    LET at == {i \in 1..Len(last.old_stack[s]) : last.old_stack[s][i] = last.node}
    IN IF at = {} THEN 0 ELSE Max(at)

\* The nodes a seat had above the destroyed node, from the top down.
StackAbove(s) ==
    LET old == last.old_stack[s]
    IN [k \in 1..(Len(old) - StackIdx(s)) |-> old[Len(old) + 1 - k]]

\* The nodes the seat was told to leave by the last handler, in order.
LeavesOf(s) ==
    LET idx == SelectSeq([i \in 1..Len(steps) |-> i],
                         LAMBDA i : steps[i].op = "leave" /\ steps[i].seat = s)
    IN [k \in 1..Len(idx) |-> steps[idx[k]].node]

\* What the destroy of a node leaves of the stack of a seat that had the
\* node on it: the nodes above it are gone, have been left from the top down
\* and no longer hold the seat as a pointer focus.
PoppedAbove(s) ==
    /\ LeavesOf(s) = StackAbove(s)
    /\ \A m \in SeqRange(StackAbove(s)) : s \notin SeqRange(pointer_foci[m])

\* C22 as stated: the destroy pops the stack of every seat with a pointer
\* focus on the node N down to but not including N, so that N and the nodes
\* below it stay on the stack.
C22_PopKeepsNode ==
    DestroyDone => \A s \in Seats :
        StackIdx(s) > 0 =>
            /\ PoppedAbove(s)
            /\ pointer_stack[s] = SubSeq(last.old_stack[s], 1, StackIdx(s))

\* C22 as the code has it: the destroy pops the stack of every seat with a
\* pointer focus on N down to and including N; the nodes above N are left
\* from the top down and lose the seat as pointer focus, N is popped without
\* a leave, the nodes below N stay, and a stack without N stays as it is.
C22_PopThroughNode ==
    DestroyDone => \A s \in Seats :
        /\ StackIdx(s) > 0 =>
              /\ PoppedAbove(s)
              /\ pointer_stack[s] = SubSeq(last.old_stack[s], 1, StackIdx(s) - 1)
              /\ s \notin SeqRange(pointer_foci[last.node])
        /\ StackIdx(s) = 0 =>
              pointer_stack[s] = last.old_stack[s] /\ LeavesOf(s) = <<>>

\* A node went away below the node the pointer of a seat was on.
C22_Witness ==
    /\ DestroyDone
    /\ \E s \in Seats :
          /\ StackIdx(s) > 1
          /\ StackAbove(s) # <<>>
          /\ Len(pointer_stack[s]) = StackIdx(s) - 1


\* ------------------------------------------------------------------ claims: the axes of a scroll

\* The k-th pointer of the scrolled client got the event ev for axis i.
GotAxisEvent(k, ev, i) ==
    \E j \in EventsOfPointer(last.client, k) : events[j].ev = ev /\ events[j].arg[1] = i

\* C23: scroll_surface treats both axes alike: for each axis i of 0 and 1, a
\* pointer of the surface's client gets axis_discrete(i) exactly when
\* discrete[i] is pending, axis(i) exactly when axis[i] is pending and
\* axis_stop(i) exactly when stop[i] is set, given that the version of the
\* pointer is at least the since-version of the event.
C23_AxesSymmetric ==
    ScrollDone =>
        \A i \in {0, 1} : \A k \in 1..Len(pointers[last.client]) :
            LET v == pointers[last.client][k]
            IN /\ GotAxisEvent(k, "axis_discrete", i)
                    = (last.args.discrete[i + 1] # None /\ v >= AXIS_DISCRETE_SINCE_VERSION)
               /\ GotAxisEvent(k, "axis", i) = (last.args.axis[i + 1] # None)
               /\ GotAxisEvent(k, "axis_stop", i)
                    = (last.args.stop[i + 1] /\ v >= AXIS_STOP_SINCE_VERSION)


\* ------------------------------------------------------------------ claims: the hit test of an output

\* The last handler was a hit test of an output for pointer input in a
\* session that is not locked.
HitDone == last.op = "node_find_tree_at" /\ last.args.usecase = "None" /\ ~locked

\* The nodes the hit test put into the vector.
HitFound == {last.args.tree[i].node : i \in (Len(last.args.base) + 1)..Len(last.args.tree)}

\* The place of a node in the order of the search: 1 the nodes stacked above
\* the layers, 2 the Overlay layer, 3 the Top layer, 4 the stacked nodes,
\* 5 the workspace with its window, or the fullscreen window, 6 the Bottom
\* layer, 7 the Background layer.
InLayer(n, layer) == \E o \in Outputs : n \in SeqRange(Layers(o, layer))
Priority(n) ==
    CASE n \in SeqRange(StackedAboveLayers) -> 1
      [] InLayer(n, OVERLAY) -> 2
      [] InLayer(n, TOP) -> 3
      [] n \in SeqRange(Stacked) -> 4
      [] n \in Workspaces \cup Toplevels \cup Surfaces -> 5
      [] InLayer(n, BOTTOM) -> 6
      [] InLayer(n, BACKGROUND) -> 7
      [] OTHER -> 0

\* The window the workspace part of the search of an output can find: the
\* fullscreen window of the active workspace, else the tiled window.
HitWindow(o) ==
    IF fullscreen[OutputWorkspace(o)] # "none" THEN fullscreen[OutputWorkspace(o)]
    ELSE WorkspaceContainer(OutputWorkspace(o))

\* A node that takes pointer input at the point (x, y) of output o when it is
\* asked on its own: a visible stacked node whose rectangle holds the point,
\* a visible layer surface of the output whose extents hold it, the visible
\* surface of the visible window of the output, fullscreen at the place of
\* the output or tiled inside the non-exclusive rectangle below the bar.
TakesInputAt(n, o, x, y) ==
    LET g == GlobalPos(o)
        ne == NonExclusiveRectRel(o)
        tl == HitWindow(o)
        tiled == fullscreen[OutputWorkspace(o)] = "none"
        wx == IF tiled THEN x - ne.x1 ELSE x
        wy == IF tiled THEN y - ne.y1 - (TitleHeight + 1) ELSE y
    IN CASE Priority(n) \in {1, 4} ->
              NodeVisible(n) /\ RectContains(NodeAbsolutePosition(n), x + g.x1, y + g.y1)
         [] Priority(n) \in {2, 3, 6, 7} ->
              /\ \E layer \in {OVERLAY, TOP, BOTTOM, BACKGROUND} : n \in SeqRange(Layers(o, layer))
              /\ NodeVisible(n) /\ RectContains(LayerOutputExtents(n), x, y)
         [] n \in Surfaces ->
              /\ n = FocusSurface(tl) /\ NodeVisible(n) /\ (tiled => NodeVisible(tl))
              /\ tiled => (RectContains(ne, x, y) /\ wy >= 0)
              /\ RectContains(SurfaceExtents(n), wx, wy)
         [] OTHER -> FALSE

Takers == {n \in Nodes : TakesInputAt(n, last.node, last.args.x, last.args.y)}

\* C24: the hit test of an unlocked output for pointer input searches the
\* nodes stacked above the layers, the Overlay layer, the Top layer, the
\* stacked nodes, the fullscreen window or else the workspace, the Bottom
\* layer and the Background layer in this order and stops at the first node
\* that accepts the input: a node is in the result only if no node of a part
\* searched before takes input at the point, and when some node of the first
\* five parts takes input, the result ends in a node of the first part that
\* has one.
C24_SearchOrder ==
    HitDone =>
        /\ \A n \in HitFound : Priority(n) # 0 /\ \A m \in Takers : Priority(m) >= Priority(n)
        /\ \A m \in Takers :
              Priority(m) <= 5 =>
                 /\ last.args.res = AcceptsInput
                 /\ Last(last.args.tree).node \in Takers
                 /\ Priority(Last(last.args.tree).node) <= Priority(m)

\* A hit test found a node of a part that is not the first one while nodes of
\* three parts searched later would have taken the input as well.
C24_Witness ==
    /\ HitDone
    /\ HitFound # {}
    /\ Priority(Last(last.args.tree).node) \in 2..5
    /\ Cardinality({Priority(m) : m \in Takers} \ (0..Priority(Last(last.args.tree).node))) >= 3


\* A search step that misses hands back the vector it was given.
Restores(r, entry) == r.res = Other => r.tree = entry

\* The workspace part of the last hit test was entered: there is no
\* fullscreen window and the point lies in the non-exclusive rectangle of
\* the output, below the bar.
WorkspaceSearched ==
    LET ne == NonExclusiveRectRel(last.node)
    IN /\ fullscreen[OutputWorkspace(last.node)] = "none"
       /\ RectContains(ne, last.args.x, last.args.y)
       /\ last.args.y - ne.y1 >= TitleHeight + 1

\* C25: a step of the hit test of an output that misses leaves the vector as
\* it was on entry: find_stacked_at and find_layer_surface_at that return
\* Other return the vector they were given, and after a workspace search that
\* found no window the vector holds nothing of the workspace; so the nodes the
\* hit test adds to the vector are the accepted node and ancestors of it.
C25_MissRestoresVector ==
    HitDone =>
        LET o == last.node
            x == last.args.x
            y == last.args.y
            base == last.args.base
            s1 == FindStackedAt(o, StackedAboveLayers, x, y, base, "None")
            s2 == FindLayerSurfaceAt(o, x, y, <<OVERLAY, TOP>>, s1.tree, "None")
            s3 == FindStackedAt(o, Stacked, x, y, s2.tree, "None")
            s4 == FindLayerSurfaceAt(o, x, y, <<BOTTOM, BACKGROUND>>, s3.tree, "None")
            leaf == Last(last.args.tree).node
        IN /\ Restores(s1, base) /\ Restores(s2, s1.tree)
           /\ Restores(s3, s2.tree) /\ Restores(s4, s3.tree)
           /\ SubSeq(last.args.tree, 1, Len(base)) = base
           /\ (WorkspaceSearched /\ Takers \cap Surfaces = {})
                 => HitFound \cap (Workspaces \cup Toplevels \cup Surfaces) = {}
           /\ last.args.res = AcceptsInput =>
                 \A n \in HitFound : n = leaf \/ IsAncestor(n, leaf)

\* The workspace of an output was searched and its window missed the point,
\* after the popup above the layers had missed it too, and a layer surface
\* below the workspace was found.
C25_Witness ==
    /\ HitDone
    /\ WorkspaceSearched
    /\ NodeVisible(HitWindow(last.node))
    /\ Takers \cap Surfaces = {}
    /\ NodeVisible("P") /\ "P" \notin Takers
    /\ HitFound # {} /\ HitFound \subseteq LayerSurfaces


\* The layer surfaces of the Bottom and the Background layer.
LowerLayers == {n \in Nodes : Priority(n) \in {6, 7}}

\* The point of the last hit test lies in the non-exclusive rectangle of the
\* output, and there on the bar.
InsideNonExclusive == RectContains(NonExclusiveRectRel(last.node), last.args.x, last.args.y)
OnBar ==
    InsideNonExclusive /\ last.args.y - NonExclusiveRectRel(last.node).y1 < TitleHeight + 1

\* The workspace of the output of the last hit test has no fullscreen window.
Tiled == fullscreen[OutputWorkspace(last.node)] = "none"

\* C26: with a fullscreen window on the active workspace the hit test of an
\* unlocked output finds nothing of the tiled tree of the workspace and no
\* surface of the Bottom and Background layers; without one, a point on the
\* bar finds neither the workspace nor such a layer surface; and such a layer
\* surface is found only for a point outside the non-exclusive rectangle or
\* after the workspace missed, and then it is found when nothing above takes
\* the input.
C26_LowerLayersFallback ==
    HitDone =>
        LET ws == OutputWorkspace(last.node)
            tl == WorkspaceContainer(ws)
            fall == ~InsideNonExclusive \/ (~OnBar /\ Takers \cap Surfaces = {})
        IN /\ ~Tiled =>
                 /\ HitFound \cap LowerLayers = {}
                 /\ ws \notin HitFound
                 /\ tl # fullscreen[ws] => HitFound \cap {tl, FocusSurface(tl)} = {}
           /\ (Tiled /\ OnBar) =>
                 HitFound \cap (LowerLayers \cup Workspaces \cup Toplevels \cup Surfaces) = {}
           /\ HitFound \cap LowerLayers # {} => (Tiled /\ fall)
           /\ (Tiled /\ fall /\ Takers \cap LowerLayers # {}
                 /\ \A m \in Takers : Priority(m) >= 5)
                 => Last(last.args.tree).node \in Takers \cap LowerLayers

\* A point on the bar of a workspace without a fullscreen window, above a
\* visible surface of a lower layer, found nothing but the output.
C26_Witness ==
    /\ HitDone /\ Tiled /\ OnBar
    /\ Takers \cap LowerLayers # {}
    /\ \A m \in Takers : Priority(m) >= 5
    /\ HitFound = {}

\* A fullscreen window missed the point above a visible surface of the
\* Background layer, and the hit test found the window only.
FullscreenMissed ==
    /\ HitDone /\ ~Tiled
    /\ Takers \cap LowerLayers # {}
    /\ Takers \cap Surfaces = {}
    /\ HitFound \cap Toplevels # {}

\* A point outside the non-exclusive rectangle found a surface of the Bottom
\* layer.
OutsideFoundLowerLayer ==
    /\ HitDone /\ ~InsideNonExclusive
    /\ HitFound \cap LowerLayers # {}


\* ------------------------------------------------------------------ claims: the copy behind ready

\* C27: perform_wlr_screencopies sends ready to a capture only after a copy
\* into its buffer, by the shm path or by the dmabuf path, was made and
\* succeeded; a capture whose buffer has no storage gets no ready.
C27_ReadyOnlyAfterCopy ==
    CopiesDone =>
        \A i \in 1..Len(last.args[1]) :
            CaptureGot(last.args[1][i], "ready") > 0
                => last.args[1][i].buffer \in {SHM, DMABUF} /\ last.args[2][i]


\* ------------------------------------------------------------------ claims: buttons on a surface

\* The calls of button_surface the last handler made: the places in the log.
ButtonSurfaceIdx == {i \in 1..Len(steps) : steps[i].op \in {"button_pressed", "button_released"}}

\* The last handler was a button event that reached button_surface once.
ButtonSurfaceDone == last.op = "button" /\ Cardinality(ButtonSurfaceIdx) = 1

\* The surface of that call and whether the button was pressed.
ButtonTarget == steps[CHOOSE i \in ButtonSurfaceIdx : TRUE].node
ButtonPressed == steps[CHOOSE i \in ButtonSurfaceIdx : TRUE].op = "button_pressed"

\* The places in the log of the calls of one kind into the k-th pointer.
PointerCallIdx(op, k) == {i \in 1..Len(steps) : steps[i].op = op /\ steps[i].obj = k}

\* What C28 says of the button and of the keyboard focus: every pointer of
\* the surface's client gets the button once, all calls go to the surface,
\* and the keyboard node of the seat becomes the surface if the button was
\* pressed and the surface accepts the keyboard focus and stays what it was
\* if not.
ButtonAndFocus ==
    LET c == SurfaceClient(ButtonTarget)
    IN /\ \A i \in 1..Len(steps) : steps[i].obj # 0 =>
              /\ steps[i].op \in {"send_button", "send_frame"}
              /\ steps[i].node = ButtonTarget /\ steps[i].obj \in 1..Len(pointers[c])
       /\ \A k \in 1..Len(pointers[c]) : Cardinality(PointerCallIdx("send_button", k)) = 1
       /\ keyboard_node[last.seat] =
              IF ButtonPressed /\ AcceptsKbFocus(ButtonTarget) THEN ButtonTarget
              ELSE last.old_node

PressWithoutFocus ==
    /\ ButtonSurfaceDone /\ ButtonPressed /\ ~AcceptsKbFocus(ButtonTarget)
    /\ last.old_node \notin {ButtonTarget, Root}
    /\ keyboard_node[last.seat] = last.old_node

\* A release reached the surface and left the focus on another window.
ReleaseWithoutFocus ==
    /\ ButtonSurfaceDone /\ ~ButtonPressed
    /\ last.old_node \notin {ButtonTarget, Root}
    /\ keyboard_node[last.seat] = last.old_node


\* ------------------------------------------------------------------ claims: positions on a connector

ConnectorDone == last.op = "connector_position_event"

\* C29: a ConnectorPosition(connector, x, y) event of a connector that has an
\* output makes that output the output of the seat and (x + x1, y + y1), with
\* (x1, y1) the origin of the output, its position, and the pointer owner
\* looks at the new position; an event of a connector without output changes
\* neither the output nor the position of the seat and the pointer owner is
\* not called.
C29_ConnectorPosition ==
    ConnectorDone =>
        LET s == last.seat
            o == ConnectorOutput(last.args.connector)
            handled == {i \in 1..Len(steps) : steps[i].op = "handle_pointer_position"}
        IN IF o \in Outputs
           THEN /\ output[s] = o
                /\ pos[s] = <<last.args.x + 256 * GlobalPos(o).x1,
                              last.args.y + 256 * GlobalPos(o).y1>>
                /\ handled = {1}
                /\ pointer_stack[s] =
                      FoundNodes(RootFindTreeAt(RoundDown(pos[s][1]), RoundDown(pos[s][2]), "None"))
           ELSE /\ output[s] = last.old_output /\ pos[s] = last.old_pos
                /\ steps = <<>>
                /\ pointer_stack = last.old_stack

\* A position on the connector of the second output took the seat there from
\* the first output, to a place that is not the origin of either.
C29_Witness ==
    /\ ConnectorDone
    /\ last.args.connector = "conB" /\ last.old_output = "A"
    /\ last.args.x > 0 /\ last.args.y > 0
    /\ output[last.seat] = "B"
    /\ RoundDown(pos[last.seat][1]) >= GlobalPos("B").x1

\* An event of a connector without output came while the seat was away from
\* the origin.
UnknownConnector ==
    /\ ConnectorDone
    /\ ConnectorOutput(last.args.connector) = "none"
    /\ pos[last.seat] # <<0, 0>>


\* ------------------------------------------------------------------ claims: render data

\* How often an output is in the queue.
QueuedTimes(o) ==
    Cardinality({i \in 1..Len(pending_output_render_data) : pending_output_render_data[i] = o})

\* C30: an output whose global is not destroyed is in the queue of pending
\* render-data updates at most once, and its update_render_data_scheduled
\* flag is set exactly when it is queued; it is queued exactly when
\* schedule_update_render_data has been called since its last update, however
\* often, and the turn of the updater that takes it from the queue calls
\* update_render_data once and leaves nothing queued for it.
C30_UpdatesCoalesced ==
    /\ \A o \in Outputs \ global_destroyed :
          /\ QueuedTimes(o) <= 1
          /\ update_render_data_scheduled[o] <=> QueuedTimes(o) = 1
          /\ schedule_calls[o] >= 1 <=> QueuedTimes(o) = 1
    /\ (last.op = "output_render_data" /\ last.node \notin global_destroyed) =>
          /\ last.args.calls >= 1
          /\ last.args.updates = 1
          /\ QueuedTimes(last.node) = 0
          /\ schedule_calls[last.node] = 0

\* The updater took an output from the queue that had been scheduled several
\* times, while the other output was still waiting.
C30_Witness ==
    /\ last.op = "output_render_data"
    /\ last.node \notin global_destroyed
    /\ last.args.calls = MaxSchedules
    /\ last.args.updates = 1
    /\ pending_output_render_data # <<>>

\* The updater skipped an output whose global was destroyed.
SkippedDestroyed ==
    /\ last.op = "output_render_data"
    /\ last.node \in global_destroyed
    /\ last.args.updates = 0

\* The turn of the updater that ran update_render_data for the output.
UpdatedNow(o) ==
    /\ last.op = "output_render_data" /\ last.node = o
    /\ last.args.updates = 1
    /\ ~update_render_data_scheduled[o]

\* C40 as stated: when the task output_render_data is scheduled fairly, every
\* output for which schedule_update_render_data was called is, unless its
\* global is destroyed, eventually updated by the task and its
\* update_render_data_scheduled flag cleared; and a turn of the task that
\* takes a destroyed output from the queue runs no update and leaves its flag
\* as it is.
C40_ScheduledEventuallyUpdated ==
    /\ \A o \in Outputs :
          (update_render_data_scheduled[o] /\ o \notin global_destroyed)
              ~> (UpdatedNow(o) \/ o \in global_destroyed)
    /\ []((last.op = "output_render_data" /\ last.node \in global_destroyed) =>
             /\ last.args.updates = 0
             /\ update_render_data_scheduled[last.node] = last.args.scheduled)

\* An output was updated and its flag cleared after the global of the other
\* output, also scheduled, had been destroyed.
C40_Witness ==
    /\ \E o \in Outputs \ global_destroyed : UpdatedNow(o)
    /\ \E o \in global_destroyed : update_render_data_scheduled[o]

\* A destroyed output was taken from the queue and its flag stayed set.
SkippedKeepsFlag ==
    /\ last.op = "output_render_data"
    /\ last.node \in global_destroyed
    /\ update_render_data_scheduled[last.node]
    /\ pending_output_render_data = <<>>


\* ------------------------------------------------------------------ claims: signals

SighandDone == last.op = "sighand_dispatch"

\* The SIGINTs among the first n signals of a sequence.
Sigints(fd, n) == Cardinality({i \in 1..n : i <= Len(fd) /\ fd[i] = SIGINT})

\* C31: Sighand::dispatch returns ErrorEvent without a read when the events
\* contain EPOLLERR or EPOLLHUP; otherwise it reads the fd until a read
\* fails, returns ReadFailed if that read failed with something else than
\* EAGAIN and Ok if it failed with EAGAIN, which is the read after the last
\* waiting signal; the event loop has been stopped once for every SIGINT
\* that was read.
C31_SighandDispatch ==
    SighandDone =>
        LET a == last.args
        IN IF a.mask \cap {"EPOLLERR", "EPOLLHUP"} # {}
           THEN a.result = "ErrorEvent" /\ a.reads = 0 /\ a.stops = 0 /\ signal_fd = a.old_fd
           ELSE /\ a.result \in {"Ok", "ReadFailed"}
                /\ a.result = "ReadFailed" <=> a.errno # "EAGAIN"
                /\ a.result = "Ok" => (signal_fd = <<>> /\ a.reads = Len(a.old_fd) + 1)
                /\ a.result = "ReadFailed" => a.reads = a.fail_at
                /\ signal_fd = SubSeq(a.old_fd, a.reads, Len(a.old_fd))
                /\ a.stops = Sigints(a.old_fd, a.reads - 1)
                /\ a.stops > 0 => el_stopped

\* A dispatch drained a fd that held several signals, one of them not SIGINT,
\* and stopped the event loop more than once.
C31_Witness ==
    /\ SighandDone
    /\ last.args.result = "Ok"
    /\ Len(last.args.old_fd) = MaxSignals
    /\ last.args.stops = 2
    /\ el_stopped

\* A read failed after a signal had been read.
ReadFailedMidway ==
    /\ SighandDone
    /\ last.args.result = "ReadFailed"
    /\ last.args.reads = 2
    /\ signal_fd # <<>>

\* The fd was in an error state while signals waited.
ErrorEventWithSignals ==
    /\ SighandDone
    /\ last.args.result = "ErrorEvent"
    /\ signal_fd # <<>>


\* ------------------------------------------------------------------ claims: the seat stays on its output

\* The integer part of a position lies in the rectangle of an output.
PosInOutput(p, o) == RectContains(GlobalPos(o), RoundDown(p[1]), RoundDown(p[2]))

\* C32: a relative motion of a seat whose position lay in the rectangle of its
\* output leaves the position in the rectangle of the output the seat is on
\* afterwards, whatever the delta; if the target of the motion lies in the
\* output the seat was on, the seat stays on it.
C32_StaysInsideOutput ==
    (MotionDone /\ PosInOutput(last.old_pos, last.old_output)) =>
        /\ PosInOutput(pos[last.seat], output[last.seat])
        /\ TargetInOldOutput => output[last.seat] = last.old_output

\* A motion from output B beyond its far corner, into no output, left the seat
\* in B; the seat had come to B from A.
C32_Witness ==
    /\ MotionDone
    /\ PosInOutput(last.old_pos, last.old_output)
    /\ last.old_output = "B" /\ output[last.seat] = "B"
    /\ TargetInNoOutput
    /\ TargetInt[1] >= GlobalPos("B").x2
    /\ PosInOutput(pos[last.seat], "B")

\* A motion inside the output the seat is on.
MotionInsideOutput ==
    /\ MotionDone
    /\ TargetInOldOutput
    /\ pos[last.seat] # last.old_pos
    /\ output[last.seat] = last.old_output


\* ------------------------------------------------------------------ claims: unlock

UnlockDone == last.op = "unlock" /\ last.ok

\* The calls of one kind among the steps of the last handler.
StepsOf(op) == {i \in 1..Len(steps) : steps[i].op = op}

UnlockOfUnlocked ==
    /\ UnlockDone /\ ~last.old_locked
    /\ ~locked


\* ------------------------------------------------------------------ claims: drag and drop

DndDone == last.op \in DndCallbacks

\* The events of the last handler that went to data devices.
DeviceEventIdx ==
    {i \in 1..Len(events) : events[i].ev \in {"dnd_enter", "dnd_motion", "dnd_leave", "dnd_drop"}}

\* C34: the dnd callbacks send enter, motion, leave and drop to data devices
\* of the client of the target surface and of no other client; for a drag
\* without a data source they send them only if that client is the one that
\* began the drag, and then every data device of the client gets the event
\* once.
C34_DndConfined ==
    DndDone =>
        LET c == SurfaceClient(last.node)
            entitled == last.args.src \/ last.args.client = c
        IN /\ \A i \in DeviceEventIdx : events[i].client = c
           /\ ~entitled => DeviceEventIdx = {}
           /\ entitled =>
                 \A k \in 1..Len(data_devices[c]) :
                    Cardinality({i \in DeviceEventIdx : events[i].obj = k}) = 1

\* A drag without source that client c1 began met a surface of client c2,
\* which has data devices, and c2 heard nothing of it.
C34_Witness ==
    /\ DndDone
    /\ ~last.args.src /\ last.args.client = "c1"
    /\ SurfaceClient(last.node) = "c2"
    /\ Len(data_devices["c2"]) = MaxDevices /\ data_devices["c1"] # <<>>
    /\ events = <<>>

\* A drag without source entered a surface of the client that began it.
DndOwnSurface ==
    /\ last.op = "dnd_surface_enter"
    /\ ~last.args.src /\ last.args.client = SurfaceClient(last.node)
    /\ Len(events) = MaxDevices

\* A drag with a source was dropped on a surface of another client.
DndDropOnOther ==
    /\ last.op = "dnd_surface_drop"
    /\ last.args.src /\ last.args.client # SurfaceClient(last.node)
    /\ Cardinality(DeviceEventIdx) = MaxDevices


\* ------------------------------------------------------------------ claims: events stay with the client

\* The version of wl_seat a wl_pointer event needs.
PointerSince(e) ==
    CASE e.ev = "frame" -> POINTER_FRAME_SINCE_VERSION
      [] e.ev = "axis_source" -> SourceSince(e.arg[1])
      [] e.ev = "axis_discrete" -> AXIS_DISCRETE_SINCE_VERSION
      [] e.ev = "axis_stop" -> AXIS_STOP_SINCE_VERSION
      [] OTHER -> 1

\* The k-th pointer of client c exists and comes from a binding of at least
\* version ver.
PointerOf(c, k, ver) == k \in 1..Len(pointers[c]) /\ pointers[c][k] >= ver

\* C35: an event a handler sends to a wl_keyboard for a surface goes to a
\* keyboard of the client of that surface; an event a pointer or scroll
\* callback sends for a surface, and a button or frame event of
\* button_surface, goes to a pointer of the client of that surface whose seat
\* binding has at least the version the event needs.
C35_EventsConfined ==
    /\ \A i \in 1..Len(sent) :
          /\ sent[i].client = SurfaceClient(sent[i].surface)
          /\ sent[i].kb \in 1..keyboards[sent[i].client]
    /\ (last.op \in PointerCallbacks \cup {"scroll_surface"}) =>
          \A i \in 1..Len(events) :
             /\ events[i].client = SurfaceClient(last.node)
             /\ PointerOf(events[i].client, events[i].obj, PointerSince(events[i]))
    /\ \A i \in 1..Len(steps) :
          /\ steps[i].op = "send_button" =>
                IsSurface(steps[i].node) /\ PointerOf(SurfaceClient(steps[i].node), steps[i].obj, 1)
          /\ steps[i].op = "send_frame" =>
                /\ IsSurface(steps[i].node)
                /\ PointerOf(SurfaceClient(steps[i].node), steps[i].obj,
                             POINTER_FRAME_SINCE_VERSION)

\* A scroll over a surface of client c2 reached its old pointer with the axis
\* events only and its new pointer with all of them, while client c1 has a
\* pointer that knows them all.
C35_Witness ==
    /\ last.op = "scroll_surface"
    /\ SurfaceClient(last.node) = "c2"
    /\ pointers["c2"] = <<1, 5>> /\ pointers["c1"] = <<6>>
    /\ {events[i].ev : i \in EventsOfPointer("c2", 1)} = {"axis"}
    /\ "frame" \in {events[i].ev : i \in EventsOfPointer("c2", 2)}

\* A key went to the keyboards of the focused client while the other client
\* has a keyboard too.
KeyToFocusedClient ==
    /\ last.op = "key_event"
    /\ \E i \in 1..Len(sent) : sent[i].ev = "key" /\ sent[i].client = "c2"
    /\ keyboards["c1"] > 0

\* A button went to the pointers of the surface under the pointer.
ButtonToPointers ==
    /\ last.op = "button"
    /\ \E i \in 1..Len(steps) : steps[i].op = "send_frame"
    /\ \E i \in 1..Len(steps) : steps[i].op = "send_button" /\ steps[i].obj = 1


\* ------------------------------------------------------------------ claims: a dropped configuration

\* C36: the drop of a ConfigProxy sets the dropped flag before it calls the
\* unref of the configuration, and a handle_msg that comes when the flag is
\* set, during that unref or later, returns without handle_request: the
\* message changes nothing; a handle_msg for a live handler is handled.
C36_DroppedIgnoresMsgs ==
    /\ last.op = "drop_config" =>
          /\ Len(steps) = 2 + Len(last.args.msgs)
          /\ steps[1].op = "dropped_set" /\ steps[2].op = "unref"
          /\ StepsOf("handle_request") = {}
          /\ shortcuts[ConfigSeat] = last.args.table
    /\ last.op = "handle_msg" =>
          IF last.args.dropped
          THEN /\ StepsOf("handle_request") = {}
               /\ shortcuts[ConfigSeat] = last.args.table
          ELSE /\ Cardinality(StepsOf("handle_request")) = 1
               /\ shortcuts[ConfigSeat] = HandleRequest(last.args.table, last.args.req)

\* A dropped handler was asked to add a shortcut the seat does not have, and
\* the seat still does not have it.
C36_Witness ==
    /\ last.op = "handle_msg" /\ last.args.dropped
    /\ last.args.req.op = "add_shortcut"
    /\ last.args.req.modsym \notin DOMAIN shortcuts[ConfigSeat]
    /\ ~config

\* The configuration sent messages from within its unref.
MsgsDuringUnref ==
    /\ last.op = "drop_config"
    /\ Len(last.args.msgs) = MaxMsgs
    /\ last.args.msgs[1].op = "remove_shortcut"
    /\ last.args.msgs[1].modsym \in DOMAIN shortcuts[ConfigSeat]

\* A live handler handled a message.
LiveHandles ==
    /\ last.op = "handle_msg" /\ ~last.args.dropped
    /\ shortcuts[ConfigSeat] # last.args.table

\* ------------------------------------------------------------------ claims: set_visible

\* The calls of node_active_changed(false) a handler made.
ActiveChangedIdx == {i \in 1..Len(steps) : steps[i].op = "active_changed"}

\* C38 as stated: set_visible(node, false) tears the node down as
\* destroy_node does, grabs, dnd targets, pointer foci and keyboard foci, but
\* does not go back to the focus history: every seat whose keyboard focus was
\* on the node has the root as its keyboard node afterwards, and
\* node_active_changed(false) is called, before everything else, if and only
\* if a seat had its keyboard focus on the node.  set_visible(node, true)
\* changes nothing of the seats.
C38_SetVisible ==
    [][\A n \in Nodes :
          (last'.op = "set_visible" /\ last'.node = n /\ ~hung') =>
              IF last'.kstate = "false"
              THEN /\ NodeUnreferenced(n)'
                   /\ \A s \in SeqRange(kb_foci[n]) : keyboard_node'[s] = Root
                   /\ \A s \in SeqRange(grabs[n]) : pointer_owner'[s].kind = "default"
                   /\ ActiveChangedIdx' = IF kb_foci[n] # <<>> THEN {1} ELSE {}
                   /\ history' = history
              ELSE /\ UNCHANGED <<keyboard_node, kb_owner, history, kb_foci, pointer_foci,
                                   grabs, dnd_targets, pointer_stack, pointer_owner,
                                   tree_changed>>
                   /\ steps' = <<>> /\ sent' = <<>>]_vars

\* A surface was hidden while a seat had its keyboard focus there and the
\* focus history of the seat ended with a toplevel.
C38_Witness ==
    /\ last.op = "set_visible" /\ last.kstate = "false"
    /\ last.old_foci # <<>>
    /\ \A s \in SeqRange(last.old_foci) : history[s] # <<>> /\ keyboard_node[s] = Root

\* A surface was hidden that held a grab and a pointer focus at once.
HiddenUnderGrab ==
    /\ last.op = "set_visible" /\ last.kstate = "false"
    /\ \E i \in 1..Len(steps) : steps[i].op = "revert_to_default"
    /\ \E i \in 1..Len(steps) : steps[i].op = "pointer_pop"

\* A surface with a keyboard focus was set visible.
ShownWithFocus ==
    /\ last.op = "set_visible" /\ last.kstate = "true"
    /\ kb_foci[last.node] # <<>>

\* ------------------------------------------------------------------ claims: the visibility of an output

UpdateDone == last.op = "update_visible"
LayerNodes(o, layer) == SeqRange(Layers(o, layer))

\* C39 as stated: after update_visible of an output in a locked session the
\* active workspace and the surfaces of the four layers are invisible,
\* title_visible is false, and nothing of the output but its lock surface can
\* be visible, which it is exactly when the root is visible; in an unlocked
\* session with a fullscreen window on the active workspace the Background
\* and Bottom layers and the title are invisible and the surfaces of the Top
\* and Overlay layers are visible exactly when the root is.
C39_UpdateVisible ==
    UpdateDone =>
        LET o == last.node
            ws == workspace[o]
            root_visible == last.args.root_visible
        IN /\ locked =>
                 /\ ws \in hidden
                 /\ \A layer \in {BACKGROUND, BOTTOM, TOP, OVERLAY} :
                       LayerNodes(o, layer) \subseteq hidden
                 /\ ~title_visible[o]
                 /\ (Subtree(o) \ {o}) \ hidden
                       = IF root_visible THEN {LockSurface(o)} \ {"none"} ELSE {}
           /\ (~locked /\ fullscreen[ws] # "none") =>
                 /\ LayerNodes(o, BACKGROUND) \cup LayerNodes(o, BOTTOM) \subseteq hidden
                 /\ ~title_visible[o]
                 /\ \A n \in LayerNodes(o, TOP) \cup LayerNodes(o, OVERLAY) :
                       n \notin hidden <=> root_visible

\* The visibility of the output with the lock surface was brought up to date
\* in a locked session with a visible root, and took the keyboard focus from
\* a window of the workspace.
C39_Witness ==
    /\ UpdateDone /\ locked /\ last.args.root_visible
    /\ last.node = "A"
    /\ "LS" \notin hidden
    /\ \E i \in 1..Len(steps) : steps[i].op = "release_kb_focus"

\* The same for the output with the four layers, unlocked, below a
\* fullscreen window: the upper layers are visible, the lower ones are not.
UpdatedBelowFullscreen ==
    /\ UpdateDone /\ ~locked /\ last.args.root_visible
    /\ last.node = "B" /\ fullscreen[workspace["B"]] # "none"
    /\ {"LO", "L", "LT"} \cap hidden = {}
    /\ {"LM", "LG"} \subseteq hidden
    /\ "LM" \notin last.args.hidden

\* Without a fullscreen window the lower layers and the title are visible.
UpdatedTiled ==
    /\ UpdateDone /\ ~locked /\ last.args.root_visible
    /\ last.node = "B" /\ fullscreen[workspace["B"]] = "none"
    /\ title_visible["B"] /\ {"LM", "LG"} \cap hidden = {}
    /\ "LM" \in last.args.hidden

\* ------------------------------------------------------------------ claims: show_workspace

ShowDone == last.op = "show_workspace"

\* The seats whose keyboard focus was inside the old workspace.
SeatsOfOld == {s \in Seats : last.args.keyboard_node[s] \in Subtree(last.args.old)}

ShowKeepsOtherOutput ==
    /\ ShowDone /\ last.args.old # last.args.ws
    /\ \E s \in Seats \ SeatsOfOld : keyboard_node[s] = "S2"
    /\ SeatsOfOld # {}

\* The workspace that is shown already was shown again while a seat had its
\* keyboard focus there.
ShownAgain ==
    /\ ShowDone /\ last.args.old = last.args.ws
    /\ SeatsOfOld # {}

\* An empty workspace was replaced: it is destroyed, not hidden.
ShowFromEmpty ==
    /\ ShowDone /\ last.args.old = "WE"
    /\ "WE" \in destroyed

====
